---------------------------- MODULE Spec2Model ----------------------------
(***************************************************************************)
(* Verification model of the Code-Evaluator grading pipeline.              *)
(*                                                                         *)
(* One evaluation of one submission: safety check and sandboxed worker,    *)
(* parsing of the worker output (V1 run_tests and V2                       *)
(* parse_sandbox_output), deterministic rubric, the three specialist       *)
(* judges, the consensus step, the hallucination audit and the score       *)
(* blender of Code-Evaluator-V2/core/orchestrator.py.                      *)
(*                                                                         *)
(* Number representation (the code uses Python floats):                    *)
(*   rubric scores   : integers, unit 1/10000 point   (10.0 = 100000)      *)
(*   overall scores  : integers, unit 1/1000000 point (weights in percent) *)
(*   confidences     : integers, unit 1/100           (0.4  = 40)          *)
(*   llm weights     : integers, unit 1/100           (0.4  = 40)          *)
(*   pass_rate       : a fraction [n, d] with d > 0                        *)
(* round(x, k) is round-half-even on the exact value.                      *)
(***************************************************************************)
EXTENDS Integers, Sequences, FiniteSets, TLC

\* ------------------------------------------------------------------------
\* Bounds of the model
\* ------------------------------------------------------------------------
\* largest number of test methods the worker harness runs
MaxTests == 1

\* ------------------------------------------------------------------------
\* Arithmetic helpers
\* ------------------------------------------------------------------------
\* round(a / b) to the nearest integer, ties to even (Python round), b > 0
RoundDivHE(a, b) ==
    LET q == a \div b
        r == a % b
    IN  IF 2 * r < b THEN q
        ELSE IF 2 * r > b THEN q + 1
        ELSE IF q % 2 = 0 THEN q ELSE q + 1

Abs(x) == IF x < 0 THEN 0 - x ELSE x

Max2(a, b) == IF a >= b THEN a ELSE b

Min2(a, b) == IF a <= b THEN a ELSE b

\* 10.0 rubric points in score units
TEN == 100000

\* ------------------------------------------------------------------------
\* Standard output of the worker, as a sequence of tokens.
\*   marker : a line ===JSON_RESULT===
\*   json   : a JSON object (src tells who printed it)
\*   text   : any other non-blank text
\* ------------------------------------------------------------------------
Marker == [k |-> "marker"]

Text == [k |-> "text"]

JsonTok(src, total, passed, failed, errors) ==
    [k |-> "json", src |-> src, total |-> total, passed |-> passed,
     failed |-> failed, errors |-> errors]

\* blocks a submission may print itself: sentinel line plus a JSON object
FakeBlock(total, passed) == << Marker, JsonTok("submission", total, passed, 0, 0) >>

\* ------------------------------------------------------------------------
\* Sandbox constants (deterministic_engine.py / sandbox.py)
\* ------------------------------------------------------------------------
BLOCKED_BUILTINS ==
    {"exec", "eval", "compile", "__import__", "open", "input",
     "breakpoint", "exit", "quit"}

SAFE_IMPORTS ==
    {"math", "collections", "itertools", "functools", "heapq",
     "bisect", "string", "re", "typing", "dataclasses", "enum",
     "copy", "operator", "statistics"}

BLOCKED_ATTRS == {"system", "popen", "exec", "spawn"}

\* ------------------------------------------------------------------------
\* Submissions: the source text is abstracted to the facts the pipeline
\* reads from it.
\*   syntaxOK  ast.parse succeeds
\*   imports   the import statements, see ImportStmt
\*   calls     plain names that are called, attrs: attribute names called
\*   prints    what the submission writes to standard output when it runs
\*   ending    how executing it in the worker ends: "returns" (the harness
\*             goes on), "SystemExit", "raises", "hangs"
\*   lines, loopDepth, recursion, memo, oddNames, longLines, funcs,
\*   shortFuncs, docstring, commentLines: structure read by the rubric
\*   warnings  number of ruff diagnostics
\*   expected  expected complexity label of the problem
\* ------------------------------------------------------------------------
\* an import statement.  form "import": module is alias.name, the dotted
\* name after the keyword.  form "from": module is node.module, "" when the
\* statement has none (from . import name); level counts the leading dots
\* and name is the name imported.
ImportStmt(form, module, level, name) ==
    [form |-> form, module |-> module, level |-> level, name |-> name]

\* name.split(".")[0] on the dotted names that occur
TopLevel(dotted) ==
    CASE dotted = "os.path" -> "os"
      [] dotted = "collections.abc" -> "collections"
      [] OTHER -> dotted

BaseSub ==
    [name |-> "clean", syntaxOK |-> TRUE,
     imports |-> {ImportStmt("import", "math", 0, "")},
     calls |-> {"len", "range"}, attrs |-> {"append"},
     prints |-> << >>, ending |-> "returns",
     lines |-> 12, loopDepth |-> 1, recursion |-> FALSE, memo |-> FALSE,
     oddNames |-> 0, longLines |-> 0, funcs |-> 1, shortFuncs |-> 0,
     docstring |-> FALSE, commentLines |-> 0, warnings |-> 0,
     expected |-> "O(n)"]

Submissions ==
    { BaseSub,
      [BaseSub EXCEPT !.name = "sloppy", !.lines = 130, !.loopDepth = 2,
                      !.recursion = TRUE, !.oddNames = 3, !.longLines = 2,
                      !.commentLines = 4, !.warnings = 6, !.docstring = TRUE],
      [BaseSub EXCEPT !.name = "long_tidy", !.lines = 130, !.warnings = 6],
      [BaseSub EXCEPT !.name = "bad_import",
                      !.imports = {ImportStmt("import", "math", 0, ""),
                                   ImportStmt("import", "os", 0, "")}],
      [BaseSub EXCEPT !.name = "eval_call", !.calls = {"eval"}],
      [BaseSub EXCEPT !.name = "attr_call", !.attrs = {"system"}],
      [BaseSub EXCEPT !.name = "syntax_error", !.syntaxOK = FALSE],
      [BaseSub EXCEPT !.name = "raises", !.ending = "raises"],
      [BaseSub EXCEPT !.name = "hangs", !.ending = "hangs"],
      [BaseSub EXCEPT !.name = "spoof", !.prints = << Text >> \o FakeBlock(1, 1)],
      [BaseSub EXCEPT !.name = "spoof_exit", !.prints = FakeBlock(1, 2),
                      !.ending = "SystemExit"] }

\* ------------------------------------------------------------------------
\* check_code_safety: the list of violations (order as ast.walk meets them
\* is not modelled; one entry per offending construct)
\* ------------------------------------------------------------------------
SetToSeq(S) ==
    LET RECURSIVE Build(_)
        Build(T) == IF T = {} THEN << >>
                    ELSE LET x == CHOOSE y \in T : TRUE
                         IN  << x >> \o Build(T \ {x})
    IN  Build(S)

\* mutant: a source that does not parse is passed as safe
check_code_safety_SyntaxIgnored(code) ==
    IF ~code.syntaxOK THEN << >>
    ELSE SetToSeq({ << "Blocked import", st.module >> :
                       st \in { i \in code.imports :
                                  /\ i.form = "import"
                                  /\ TopLevel(i.module) \notin SAFE_IMPORTS } }
                  \cup { << "Blocked import from", st.module >> :
                       st \in { i \in code.imports :
                                  /\ i.form = "from"
                                  /\ i.module # ""
                                  /\ TopLevel(i.module) \notin SAFE_IMPORTS } }
                  \cup { << "Blocked builtin call", c >> : c \in code.calls \cap BLOCKED_BUILTINS }
                  \cup { << "Blocked method call", a >> : a \in code.attrs \cap BLOCKED_ATTRS })

check_code_safety(code) ==
    IF ~code.syntaxOK THEN << << "SyntaxError", "" >> >>
    ELSE SetToSeq({ << "Blocked import", st.module >> :
                       st \in { i \in code.imports :
                                  /\ i.form = "import"
                                  /\ TopLevel(i.module) \notin SAFE_IMPORTS } }
                  \cup { << "Blocked import from", st.module >> :
                       st \in { i \in code.imports :
                                  /\ i.form = "from"
                                  /\ i.module # ""
                                  /\ TopLevel(i.module) \notin SAFE_IMPORTS } }
                  \cup { << "Blocked builtin call", c >> : c \in code.calls \cap BLOCKED_BUILTINS }
                  \cup { << "Blocked method call", a >> : a \in code.attrs \cap BLOCKED_ATTRS })

\* ------------------------------------------------------------------------
\* State
\* ------------------------------------------------------------------------
VARIABLES
    pc,         \* position of the evaluation in the pipeline
    sub,        \* the submission under evaluation
    cfg,        \* configuration: llm.enabled, models, API client, scoring
    worker,     \* what run_in_sandbox did: files written, process spawned,
                \* submission executed, the harness's own counts
    raw,        \* the dict returned by run_in_sandbox
    tsr1,       \* TestSuiteResult of V1 run_tests
    tsr,        \* TestSuiteResult of V2 parse_sandbox_output
    artifact,   \* ExecutionArtifact (V2)
    det,        \* deterministic RubricScores (V2)
    judgments,  \* AgentJudgment list of evaluate_single
    trace,      \* models contacted by the query_models call in progress
    consensus,  \* ConsensusResult
    h_flags,    \* HallucinationFlag list
    result,     \* EvaluationResult: the fields the blender writes
    router,     \* one query_models call: model, attempt, waits, contacts
    batch,      \* one evaluate_all call: position, results, abort
    cache,      \* provider_adapter._task_cache and the threads using it
    fn,         \* one call of a pure function: name, input, output
    judge1      \* one V1 judge_submission call: position, invocations

\* the state of one evaluate_single call
mainvars == << pc, sub, cfg, worker, raw, tsr1, tsr, artifact, det, judgments,
               trace, consensus, h_flags, result >>

\* the state of the components examined on their own
auxvars == << router, batch, cache, fn, judge1 >>

vars == << mainvars, auxvars >>

\* a component that is not running
Idle == [k |-> "idle"]

\* TestSuiteResult() of schema.py
EmptyTSR ==
    [total |-> 0, passed |-> 0, failed |-> 0, errors |-> 0,
     results |-> << >>, pass_rate |-> [n |-> 0, d |-> 1]]

NoHarness == [ran |-> FALSE, total |-> 0, passed |-> 0, failed |-> 0, errors |-> 0]

NoRaw ==
    [stdout |-> << >>, returncode |-> 0, timeout |-> FALSE,
     sandbox_violation |-> FALSE, violations |-> << >>]

\* ------------------------------------------------------------------------
\* The worker harness (runner_script): counts it reports for a suite in
\* which nP tests pass, nF fail, nE raise an error and nFE fail and then
\* raise in tearDown (unittest records such a test in failures and errors).
\* ------------------------------------------------------------------------
\* str(test) of the suite's test methods, in suite order
TestNames == << "test_1", "test_2", "test_3", "test_4" >>

\* one element of test_results
Detail(name, status, message) ==
    [name |-> name, status |-> status, message |-> message]

\* The suite holds its tests in the order: the nP passing ones, the nF
\* failing ones, the nE erroring ones, the nFE failing-and-erroring ones.
Failures(nP, nF, nE, nFE) ==
    [i \in 1..(nF + nFE) |->
        IF i <= nF THEN TestNames[nP + i] ELSE TestNames[nP + nE + i]]

Errors(nP, nF, nE, nFE) ==
    [i \in 1..(nE + nFE) |-> TestNames[nP + nF + i]]

\* "for suite_item in suite" after runner.run(suite): TestSuite.run drops
\* its reference to each test it has run, leaving None in its place, so
\* str(suite_item) is "None" for every test of the suite
SuiteItemsAfterRun(nP, nF, nE, nFE) ==
    [i \in 1..(nP + nF + nE + nFE) |-> "None"]

Range(s) == { s[i] : i \in 1..Len(s) }

HarnessOutput(nP, nF, nE, nFE) ==
    LET testsRun == nP + nF + nE + nFE
        fails    == Failures(nP, nF, nE, nFE)
        errs     == Errors(nP, nF, nE, nFE)
        failures == Len(fails)
        errors   == Len(errs)
        failed_tests == Range(fails) \cup Range(errs)
        items    == SuiteItemsAfterRun(nP, nF, nE, nFE)
        passing  == SelectSeq(items, LAMBDA tname : tname \notin failed_tests)
    IN  [k |-> "json", src |-> "harness",
         total   |-> testsRun,
         passed  |-> testsRun - failures - errors,
         failed  |-> failures,
         errors  |-> errors,
         details |-> [i \in 1..failures |-> Detail(fails[i], "FAIL", "traceback")]
                     \o [i \in 1..errors |-> Detail(errs[i], "ERROR", "traceback")]
                     \o [i \in 1..Len(passing) |-> Detail(passing[i], "PASS", "")]]

\* ------------------------------------------------------------------------
\* run_in_sandbox (identical in V1 sandbox.py and V2 deterministic_engine.py)
\* ------------------------------------------------------------------------
SandboxReturn(stdout, rc, to, viol, violations) ==
    [stdout |-> stdout, returncode |-> rc, timeout |-> to,
     sandbox_violation |-> viol, violations |-> violations]

\* mutant: short-circuits only on more than one violation
ShortCircuit_OffByOne(violations) == Len(violations) > 1

\* "if violations:" - the short-circuit test
ShortCircuit(violations) == violations # << >>

run_in_sandbox ==
    /\ pc = "start"
    /\ pc' = "sandboxed"
    /\ LET violations == check_code_safety(sub)
       IN  IF ShortCircuit(violations)
           THEN /\ raw' = SandboxReturn(<< >>, -1, FALSE, TRUE, violations)
                /\ worker' = [filesWritten |-> FALSE, spawned |-> FALSE,
                              executed |-> FALSE, harness |-> NoHarness]
           ELSE \/ \* subprocess.run raises some other exception
                   /\ raw' = SandboxReturn(<< >>, -1, FALSE, FALSE, << >>)
                   /\ worker' = [filesWritten |-> TRUE, spawned |-> TRUE,
                                 executed |-> FALSE, harness |-> NoHarness]
                \/ \* TimeoutExpired
                   /\ sub.ending = "hangs"
                   /\ raw' = SandboxReturn(<< >>, -1, TRUE, FALSE, << >>)
                   /\ worker' = [filesWritten |-> TRUE, spawned |-> TRUE,
                                 executed |-> TRUE, harness |-> NoHarness]
                \/ \* the submission ends the worker before the harness reports
                   /\ sub.ending \in {"raises", "SystemExit"}
                   /\ raw' = SandboxReturn(sub.prints,
                                           IF sub.ending = "raises" THEN 1 ELSE 0,
                                           FALSE, FALSE, << >>)
                   /\ worker' = [filesWritten |-> TRUE, spawned |-> TRUE,
                                 executed |-> TRUE, harness |-> NoHarness]
                \/ \* the harness runs the suite and prints its block
                   /\ sub.ending = "returns"
                   /\ \E nP \in 0..MaxTests, nF \in 0..MaxTests,
                         nE \in 0..MaxTests, nFE \in 0..MaxTests :
                        /\ nP + nF + nE + nFE <= MaxTests
                        /\ LET out == HarnessOutput(nP, nF, nE, nFE)
                           IN  /\ raw' = SandboxReturn(sub.prints \o << Marker, out >>,
                                                       0, FALSE, FALSE, << >>)
                               /\ worker' = [filesWritten |-> TRUE, spawned |-> TRUE,
                                             executed |-> TRUE,
                                             harness |-> [ran |-> TRUE,
                                                          total |-> out.total,
                                                          passed |-> out.passed,
                                                          failed |-> out.failed,
                                                          errors |-> out.errors]]
    /\ UNCHANGED << sub, cfg, tsr1, tsr, artifact, det, judgments, trace,
                    consensus, h_flags, result, auxvars >>

\* ------------------------------------------------------------------------
\* Reading the sentinel-delimited block
\* ------------------------------------------------------------------------
HasMarker(stdout) == \E i \in 1..Len(stdout) : stdout[i].k = "marker"

FirstMarker(stdout) ==
    CHOOSE i \in 1..Len(stdout) :
        /\ stdout[i].k = "marker"
        /\ \A j \in 1..(i - 1) : stdout[j].k # "marker"

JSONDecodeError == [k |-> "JSONDecodeError"]

None == [k |-> "None"]

\* json.loads of a token sequence: exactly one JSON value, nothing else
JsonLoads(toks) ==
    IF Len(toks) = 1 /\ toks[1].k = "json" THEN toks[1] ELSE JSONDecodeError

\* V1 extract_json_result: stdout.split(marker, 1)[1] is all that follows
\* the first marker
extract_json_result(stdout) ==
    IF HasMarker(stdout)
    THEN LET json_str == SubSeq(stdout, FirstMarker(stdout) + 1, Len(stdout))
             v == JsonLoads(json_str)
         IN  IF v.k = "JSONDecodeError" THEN None ELSE v
    ELSE None

\* V2: stdout.split(marker)[1] is what lies between the first marker and
\* the next one (or the end)
SplitSecondPiece(stdout) ==
    LET i == FirstMarker(stdout)
        later == { j \in (i + 1)..Len(stdout) : stdout[j].k = "marker" }
        stop == IF later = {} THEN Len(stdout) + 1
                ELSE CHOOSE j \in later : \A m \in later : j <= m
    IN  SubSeq(stdout, i + 1, stop - 1)

\* d.get(key, default) on a JSON object token
Details(data) == IF "details" \in DOMAIN data THEN data.details ELSE << >>

ResultsOf(data) ==
    [i \in 1..Len(Details(data)) |->
        [test_name |-> Details(data)[i].name,
         passed |-> (Details(data)[i].status = "PASS"),
         message |-> Details(data)[i].message]]

\* V1 schema.py compute_pass_rate: round(passed / total, 4), only if total > 0
compute_pass_rate(r) ==
    IF r.total > 0
    THEN [r EXCEPT !.pass_rate = [n |-> RoundDivHE(r.passed * 10000, r.total),
                                  d |-> 10000]]
    ELSE r

Synthetic(name, message, failed, errors) ==
    compute_pass_rate(
        [EmptyTSR EXCEPT !.total = 1, !.failed = failed, !.errors = errors,
                         !.results = << [test_name |-> name, passed |-> FALSE,
                                         message |-> message] >>])

\* V1 test_runner.py run_tests, after its call of run_in_sandbox
run_tests_result(r) ==
    IF r.timeout THEN Synthetic("execution", "Timeout", 1, 0)
    ELSE IF r.sandbox_violation THEN Synthetic("sandbox_check", "Sandbox violation", 0, 1)
    ELSE LET parsed == extract_json_result(r.stdout)
         IN  IF parsed.k = "None"
             THEN Synthetic("execution", "Failed to parse results", 0, 1)
             ELSE compute_pass_rate(
                     [EmptyTSR EXCEPT !.total = parsed.total,
                                      !.passed = parsed.passed,
                                      !.failed = parsed.failed,
                                      !.errors = parsed.errors,
                                      !.results = ResultsOf(parsed)])

run_tests ==
    /\ pc = "sandboxed"
    /\ pc' = "v1_parsed"
    /\ tsr1' = run_tests_result(raw)
    /\ UNCHANGED << sub, cfg, worker, raw, tsr, artifact, det, judgments, trace,
                    consensus, h_flags, result, auxvars >>

\* V2 deterministic_engine.py parse_sandbox_output
parse_sandbox_output_result(sandbox_result) ==
    LET stdout == sandbox_result.stdout
    IN  IF HasMarker(stdout)
        THEN LET data == JsonLoads(SplitSecondPiece(stdout))
             IN  IF data.k = "JSONDecodeError" THEN EmptyTSR
                 ELSE [total |-> data.total, passed |-> data.passed,
                       failed |-> data.failed, errors |-> data.errors,
                       results |-> ResultsOf(data),
                       pass_rate |-> IF data.total > 0
                                     THEN [n |-> data.passed, d |-> data.total]
                                     ELSE [n |-> 0, d |-> 1]]
        ELSE EmptyTSR

parse_sandbox_output ==
    /\ pc = "v1_parsed"
    /\ pc' = "parsed"
    /\ tsr' = parse_sandbox_output_result(raw)
    /\ UNCHANGED << sub, cfg, worker, raw, tsr1, artifact, det, judgments, trace,
                    consensus, h_flags, result, auxvars >>

\* ------------------------------------------------------------------------
\* V2 deterministic rubric (deterministic_engine.py)
\* ------------------------------------------------------------------------
DIMENSIONS == << "correctness", "edge_cases", "complexity", "style", "clarity" >>

DimSet == { DIMENSIONS[i] : i \in 1..Len(DIMENSIONS) }

\* round(pass_rate * 10, 2)
compute_correctness(test_result) ==
    RoundDivHE(test_result.pass_rate.n * 1000, test_result.pass_rate.d) * 100

\* the piecewise curve; the value is not rounded by the code
compute_edge_cases(test_result) ==
    LET n == test_result.pass_rate.n
        d == test_result.pass_rate.d
    IN  IF test_result.total = 0 THEN 0
        ELSE IF n >= d THEN TEN
        ELSE IF 10 * n >= 8 * d
             THEN 70000 + RoundDivHE((10 * n - 8 * d) * 15000, d)
        ELSE IF 10 * n >= 5 * d
             THEN 40000 + RoundDivHE((10 * n - 5 * d) * 10000, d)
        ELSE RoundDivHE(n * 80000, d)

\* "O(n)" in expected or "O(V+E)" in expected
LinearExpected(expected) == expected \in {"O(n)", "O(V+E)"}

\* "O(n)" in expected
OnExpected(expected) == expected = "O(n)"

compute_complexity(code) ==
    IF ~code.syntaxOK THEN 30000
    ELSE LET depth == code.loopDepth
             score == IF LinearExpected(code.expected)
                      THEN (IF depth >= 3 THEN 20000
                            ELSE IF depth >= 2 THEN 50000
                            ELSE IF depth = 1 THEN 90000 ELSE TEN)
                      ELSE IF code.expected = "O(n^2)"
                      THEN (IF depth >= 3 THEN 40000
                            ELSE IF depth >= 2 THEN 80000 ELSE TEN)
                      ELSE TEN
         IN  IF code.recursion /\ ~code.memo /\ OnExpected(code.expected)
             THEN Min2(score, 60000) ELSE score

\* density = warning_count / code_lines, compared without division
style_score_from_warnings(warning_count, code_lines) ==
    IF code_lines = 0 THEN 50000
    ELSE IF warning_count = 0 THEN TEN
    ELSE IF 100 * warning_count < 5 * code_lines THEN 90000
    ELSE IF 10 * warning_count < code_lines THEN 80000
    ELSE IF 10 * warning_count < 2 * code_lines THEN 60000
    ELSE IF 10 * warning_count < 3 * code_lines THEN 40000
    ELSE IF 10 * warning_count < 5 * code_lines THEN 20000
    ELSE 10000

compute_style(code, warning_count) ==
    LET base == style_score_from_warnings(warning_count, code.lines)
        names == IF code.syntaxOK THEN 3000 * code.oddNames ELSE 20000
        long == IF code.longLines > 0 THEN Min2(code.longLines * 3000, 20000) ELSE 0
    IN  Max2(0, Min2(TEN, base - (names + long)))

compute_clarity(code) ==
    LET s0 == 80000
        s1 == IF code.lines > 50 THEN s0 - 20000
              ELSE IF code.lines > 30 THEN s0 - 10000 ELSE s0
        s2 == IF ~code.syntaxOK THEN s1 - 30000
              ELSE IF code.funcs > 0 /\ 2 * code.shortFuncs > code.funcs
                   THEN s1 - 20000 ELSE s1
        s3 == IF code.docstring THEN s2 + 10000 ELSE s2
        s4 == IF code.commentLines > 0 /\ code.lines > 10 THEN s3 + 5000 ELSE s3
    IN  Max2(0, Min2(TEN, s4))

compute_deterministic_scores(code, test_result, warning_count) ==
    [correctness |-> compute_correctness(test_result),
     edge_cases  |-> compute_edge_cases(test_result),
     complexity  |-> compute_complexity(code),
     style       |-> compute_style(code, warning_count),
     clarity     |-> compute_clarity(code)]

\* RubricScores.overall with the default weights, in 1/1000000 point
overall(scores) ==
    35 * scores.correctness + 20 * scores.edge_cases + 15 * scores.complexity
    + 15 * scores.style + 15 * scores.clarity

\* round(x, 4) of an overall score
Round4(x) == RoundDivHE(x, 100) * 100

ZeroScores ==
    [correctness |-> 0, edge_cases |-> 0, complexity |-> 0, style |-> 0, clarity |-> 0]

NoArtifact ==
    [test_results |-> EmptyTSR, static_warnings |-> 0,
     sandbox_violation |-> FALSE, timeout |-> FALSE]

\* EvaluationResult defaults (the fields the blender writes)
NoResult ==
    [deterministic_score |-> 0, llm_adjusted_score |-> 0, final_score |-> 0,
     confidence |-> 0, fallback_info |-> "", model_used |-> ""]

\* ------------------------------------------------------------------------
\* evaluate_submission, after run_in_sandbox and parse_sandbox_output:
\* run_ruff, the ExecutionArtifact and the rubric; then evaluate_single
\* computes det_overall and creates the EvaluationResult
\* ------------------------------------------------------------------------
det_evaluate ==
    /\ pc = "parsed"
    /\ pc' = "scored"
    /\ artifact' = [test_results |-> tsr, static_warnings |-> sub.warnings,
                    sandbox_violation |-> raw.sandbox_violation,
                    timeout |-> raw.timeout]
    /\ det' = compute_deterministic_scores(sub, tsr, sub.warnings)
    /\ result' = [NoResult EXCEPT !.deterministic_score = overall(det')]
    /\ UNCHANGED << sub, cfg, worker, raw, tsr1, tsr, judgments, trace,
                    consensus, h_flags, auxvars >>

\* evaluate_single, step 2: early return without the judge layer
skip_llm ==
    /\ pc = "scored"
    /\ ~cfg.llm_enabled \/ cfg.models = << >>
    /\ pc' = "done"
    /\ result' = [result EXCEPT
                    !.llm_adjusted_score = result.deterministic_score,
                    !.final_score = result.deterministic_score,
                    !.fallback_info = IF ~cfg.llm_enabled THEN "LLM disabled"
                                      ELSE "No models configured",
                    !.confidence = 100]
    /\ UNCHANGED << sub, cfg, worker, raw, tsr1, tsr, artifact, det,
                    judgments, trace, consensus, h_flags, auxvars >>

\* ------------------------------------------------------------------------
\* Model responses.  kind:
\*   "none"      invoke_with_retry returned None (every attempt failed)
\*   "garbage"   text from which _extract_json extracts nothing
\*   "no_scores" a JSON object without a "scores" member
\*   "ok"        a JSON object with a "scores" object; scores gives for each
\*               rubric key [t |-> "num", v |-> value], [t |-> "bad"] (a
\*               value float() rejects) or [t |-> "missing"] (key absent);
\*               confidence likewise
\* ------------------------------------------------------------------------
Num(v) == [t |-> "num", v |-> v]

Bad == [t |-> "bad"]

Missing == [t |-> "missing"]

NoKeys == [d \in DimSet |-> Missing]

\* disagreements: the dimensions named in the reply's "disagreements" list,
\* empty when the member is absent or an empty list
Reply(kind, scores, confidence) ==
    [kind |-> kind, scores |-> scores, confidence |-> confidence,
     disagreements |-> {}]

NoReply == Reply("none", NoKeys, Missing)

Garbage == Reply("garbage", NoKeys, Missing)

NoScores == Reply("no_scores", NoKeys, Num(80))

\* every dimension 9.0, confidence 0.9
ReplyHigh == Reply("ok", [d \in DimSet |-> Num(90000)], Num(90))

\* out-of-range and malformed values, two keys absent, confidence -0.5
ReplyWild ==
    Reply("ok",
          [d \in DimSet |->
             IF d = "correctness" THEN Num(150000)
             ELSE IF d = "edge_cases" THEN Num(-50000)
             ELSE IF d = "complexity" THEN Bad ELSE Missing],
          Num(-50))

\* a scores object with the style key only (7.0), confidence exactly 0.4
ReplyPartial ==
    Reply("ok", [d \in DimSet |-> IF d = "style" THEN Num(70000) ELSE Missing],
          Num(40))

\* every dimension 9.0, no confidence member, a disagreement reported on
\* clarity
ReplyHighNoConf ==
    [Reply("ok", [d \in DimSet |-> Num(90000)], Missing)
        EXCEPT !.disagreements = {"clarity"}]

\* what a model may answer to a specialist prompt / to the consensus prompt
JudgeReplies == {NoReply, Garbage, NoScores, ReplyHigh, ReplyWild}

MetaReplies == {NoReply, NoScores, ReplyPartial, ReplyHighNoConf}

\* ------------------------------------------------------------------------
\* model_router.py query_models: replies[i] is what models[i] answers if it
\* is contacted.  Returns the parsed reply, the model and the log of the
\* models contacted with the kind of their answer.
\* ------------------------------------------------------------------------
\* _extract_json(raw) is not None
Extracted(reply) == reply.kind \in {"no_scores", "ok"}

\* "scores" in parsed
HasScores(reply) == reply.kind = "ok"

\* the (None, "") result
NoParsed == Reply("None", NoKeys, Missing)

Accepted(reply) == Extracted(reply) /\ HasScores(reply)

\* mutant: the reply of the first valid model is attributed to models[1]
query_models_FirstListed(models, client, replies) ==
    IF ~client THEN [parsed |-> NoParsed, model_used |-> "", log |-> << >>]
    ELSE LET hits == { i \in 1..Len(models) : Accepted(replies[i]) }
         IN  IF hits = {}
             THEN [parsed |-> NoParsed, model_used |-> "",
                   log |-> [i \in 1..Len(models) |->
                              [model |-> models[i], kind |-> replies[i].kind,
                                   reply |-> replies[i]]]]
             ELSE LET first == CHOOSE i \in hits : \A j \in hits : i <= j
                  IN  [parsed |-> replies[first], model_used |-> models[1],
                       log |-> [i \in 1..first |->
                                  [model |-> models[i], kind |-> replies[i].kind,
                                   reply |-> replies[i]]]]

query_models(models, client, replies) ==
    IF ~client THEN [parsed |-> NoParsed, model_used |-> "", log |-> << >>]
    ELSE LET hits == { i \in 1..Len(models) : Accepted(replies[i]) }
         IN  IF hits = {}
             THEN [parsed |-> NoParsed, model_used |-> "",
                   log |-> [i \in 1..Len(models) |->
                              [model |-> models[i], kind |-> replies[i].kind,
                                   reply |-> replies[i]]]]
             ELSE LET first == CHOOSE i \in hits : \A j \in hits : i <= j
                  IN  [parsed |-> replies[first], model_used |-> models[first],
                       log |-> [i \in 1..first |->
                                  [model |-> models[i], kind |-> replies[i].kind,
                                   reply |-> replies[i]]]]

\* _clamp(s.get(dim, default)): default is already a number
clamp(v) == Max2(0, Min2(TEN, v))

ClampGet(scores, dim, default) ==
    IF scores[dim].t = "missing" THEN clamp(default)
    ELSE IF scores[dim].t = "num" THEN clamp(scores[dim].v)
    ELSE 50000

ScoresFrom(parsed, det_scores) ==
    [d \in DimSet |-> ClampGet(parsed.scores, d, det_scores[d])]

\* parsed.get("confidence", 0.5)
ConfidenceOf(parsed) ==
    IF parsed.confidence.t = "num" THEN parsed.confidence.v ELSE 50

\* ------------------------------------------------------------------------
\* The specialist agents (test_designer.py, code_reviewer.py,
\* complexity_analyst.py): run() differs only in the prompt and the name
\* ------------------------------------------------------------------------
AGENTS == << "test_designer", "code_reviewer", "complexity_analyst" >>

agent_judgment(name, det_scores, q) ==
    IF q.parsed.kind # "None" /\ HasScores(q.parsed)
    THEN [agent_name |-> name, scores |-> ScoresFrom(q.parsed, det_scores),
          confidence |-> ConfidenceOf(q.parsed), model_used |-> q.model_used,
          fallback |-> FALSE]
    ELSE [agent_name |-> name, scores |-> det_scores, confidence |-> 30,
          model_used |-> "", fallback |-> TRUE]

agent_run ==
    /\ pc = "scored"
    /\ cfg.llm_enabled /\ cfg.models # << >>
    /\ Len(judgments) < Len(AGENTS)
    /\ \E replies \in [1..Len(cfg.models) -> JudgeReplies] :
         LET q == query_models(cfg.models, cfg.client, replies)
         IN  /\ judgments' = Append(judgments,
                               agent_judgment(AGENTS[Len(judgments) + 1], det, q))
             /\ trace' = q.log
    /\ pc' = IF Len(judgments) + 1 = Len(AGENTS) THEN "judged" ELSE "scored"
    /\ UNCHANGED << sub, cfg, worker, raw, tsr1, tsr, artifact, det, result,
                    consensus, h_flags, auxvars >>

\* ------------------------------------------------------------------------
\* consensus_agent.py
\* ------------------------------------------------------------------------
SeqSum(f, n) ==
    LET RECURSIVE Sum(_)
        Sum(i) == IF i = 0 THEN 0 ELSE f[i] + Sum(i - 1)
    IN  Sum(n)

AllFallback(js) == \A i \in 1..Len(js) : js[i].fallback

SeqMax(f, n) == CHOOSE x \in { f[i] : i \in 1..n } : \A i \in 1..n : f[i] <= x

SeqMin(f, n) == CHOOSE x \in { f[i] : i \in 1..n } : \A i \in 1..n : x <= f[i]

\* dimensions on which the judges' opinions are more than 2.0 apart
detect_disagreements(js) ==
    { d \in DimSet :
        LET vals == [i \in 1..Len(js) |-> js[i].scores[d]]
        IN  SeqMax(vals, Len(js)) - SeqMin(vals, Len(js)) > 20000 }

\* weight of a judge in the average: its confidence, 0.1 for a fallback
JudgeWeight(j) == IF ~j.fallback THEN j.confidence ELSE 10

\* mutant: the two confidences swapped
FallbackConsensusConfidence_Swapped(js) == IF js # << >> THEN 100 ELSE 30

\* "confidence=0.3 if judgments else 1.0"
FallbackConsensusConfidence(js) == IF js # << >> THEN 30 ELSE 100

\* mutant: the fallback judges are counted in the divisor
MeanRealConfidence_AllJudges(js) ==
    LET real == { i \in 1..Len(js) : ~js[i].fallback }
        conf_sum == SeqSum([i \in 1..Len(js) |->
                              IF i \in real THEN js[i].confidence ELSE 0], Len(js))
    IN  RoundDivHE(conf_sum, Max2(1, Len(js)))

\* round(sum(j.confidence for j in judgments if not j.fallback)
\*       / max(1, sum(1 for j in judgments if not j.fallback)), 2)
MeanRealConfidence(js) ==
    LET real == { i \in 1..Len(js) : ~js[i].fallback }
        conf_sum == SeqSum([i \in 1..Len(js) |->
                              IF i \in real THEN js[i].confidence ELSE 0], Len(js))
    IN  RoundDivHE(conf_sum, Max2(1, Cardinality(real)))

run_deterministic_consensus(det_scores, js) ==
    IF AllFallback(js) \/ js = << >>
    THEN [scores |-> det_scores,
          disagreements |-> {},
          confidence |-> FallbackConsensusConfidence(js),
          model_used |-> "",
          path |-> "all_fallback"]
    ELSE LET total_weight == SeqSum([i \in 1..Len(js) |-> JudgeWeight(js[i])], Len(js))
             weighted_sum(d) ==
                 SeqSum([i \in 1..Len(js) |-> js[i].scores[d] * JudgeWeight(js[i])], Len(js))
         IN  [scores |-> [d \in DimSet |->
                            IF total_weight > 0
                            THEN RoundDivHE(weighted_sum(d), total_weight * 100) * 100
                            ELSE det_scores[d]],
              disagreements |-> detect_disagreements(js),
              confidence |-> MeanRealConfidence(js),
              model_used |-> "",
              path |-> "weighted"]

\* parsed.get("disagreements", []) or _detect_disagreements(judgments)
ReportedOrDetected(parsed, js) ==
    IF parsed.disagreements # {} THEN parsed.disagreements
    ELSE detect_disagreements(js)

\* run(): q is the result of the meta-judge query_models call
consensus_from(det_scores, js, q) ==
    IF q.parsed.kind # "None" /\ HasScores(q.parsed)
    THEN [scores |-> ScoresFrom(q.parsed, det_scores),
          disagreements |-> ReportedOrDetected(q.parsed, js),
          confidence |-> ConfidenceOf(q.parsed),
          model_used |-> q.model_used,
          path |-> "meta"]
    ELSE run_deterministic_consensus(det_scores, js)

consensus_run ==
    /\ pc = "judged"
    /\ pc' = "consensus"
    /\ IF AllFallback(judgments) \/ judgments = << >>
       THEN /\ consensus' = run_deterministic_consensus(det, judgments)
            /\ trace' = << >>
       ELSE \E replies \in [1..Len(cfg.models) -> MetaReplies] :
              LET q == query_models(cfg.models, cfg.client, replies)
              IN  /\ consensus' = consensus_from(det, judgments, q)
                  /\ trace' = q.log
    /\ UNCHANGED << sub, cfg, worker, raw, tsr1, tsr, artifact, det, judgments,
                    h_flags, result, auxvars >>

\* ------------------------------------------------------------------------
\* hallucination_auditor.py audit
\* ------------------------------------------------------------------------
Flag(cond, dimension, severity, rule) ==
    IF cond THEN << [dimension |-> dimension, severity |-> severity, rule |-> rule] >>
    ELSE << >>

\* mutant: the deviation rule fires at exactly 3 points too
Deviates_NonStrict(det_val, llm_val) == Abs(det_val - llm_val) >= 30000

\* "abs(det_val - llm_val) > 3"
Deviates(det_val, llm_val) == Abs(det_val - llm_val) > 30000

\* mutant: rule 1 looks at a high pass rate
HighCorrectnessLowPassRate_Inverted(cs, n, d) == cs.correctness > 70000 /\ 10 * n > 7 * d

\* "cs.correctness > 7 and tr.pass_rate < 0.7"
HighCorrectnessLowPassRate(cs, n, d) == cs.correctness > 70000 /\ 10 * n < 7 * d

audit(det_scores, cons, art) ==
    LET cs == cons.scores
        n == art.test_results.pass_rate.n
        d == art.test_results.pass_rate.d
        Dev(dim) == Flag(Deviates(det_scores[dim], cs[dim]), dim, "medium", "deviation")
    IN  Flag(HighCorrectnessLowPassRate(cs, n, d), "correctness", "high", "high_correctness")
        \o Flag(cs.correctness < 30000 /\ 10 * n > 9 * d, "correctness", "high", "low_correctness")
        \o Flag(cs.edge_cases > 80000 /\ 10 * n < 8 * d, "edge_cases", "medium", "high_edge_cases")
        \o Flag(cs.style > 80000 /\ art.static_warnings > 5, "style", "medium", "style_warnings")
        \o Flag(art.timeout /\ cs.correctness > 30000, "correctness", "high", "timeout")
        \o Flag(art.sandbox_violation /\ cs.correctness > 0, "correctness", "high", "sandbox")
        \o Dev("correctness") \o Dev("edge_cases") \o Dev("complexity")
        \o Dev("style") \o Dev("clarity")

hallucination_audit ==
    /\ pc = "consensus"
    /\ pc' = "audited"
    /\ h_flags' = audit(det, consensus, artifact)
    /\ UNCHANGED << sub, cfg, worker, raw, tsr1, tsr, artifact, det, judgments,
                    trace, consensus, result, auxvars >>

\* ------------------------------------------------------------------------
\* evaluate_single, step 5: score blending
\* ------------------------------------------------------------------------
\* minimum consensus confidence for blending (orchestrator.py line 168)
MinConfidence == 40

\* mutant: the reduction is never applied
EffectiveWeight_NoReduction(scoring, flags) == scoring.llm_weight

\* llm_weight after "if h_flags: llm_weight *= reduction"
EffectiveWeight(scoring, flags) ==
    IF flags # << >> THEN RoundDivHE(scoring.llm_weight * scoring.reduction, 100)
    ELSE scoring.llm_weight

\* mutant: strict comparison with the threshold
BlendCondition_Strict(cons, js) == cons.confidence > MinConfidence /\ ~AllFallback(js)

BlendCondition(cons, js) == cons.confidence >= MinConfidence /\ ~AllFallback(js)

\* round(det_overall * (1 - llm_weight) + consensus_overall * llm_weight, 4)
Blended(det_overall, consensus_overall, llm_weight) ==
    RoundDivHE(det_overall * (100 - llm_weight) + consensus_overall * llm_weight,
               10000) * 100

blend_result(res, scoring, cons, js, flags) ==
    LET det_overall == res.deterministic_score
        consensus_overall == overall(cons.scores)
        llm_weight == EffectiveWeight(scoring, flags)
        info == IF flags # << >> THEN "LLM weight reduced" ELSE res.fallback_info
    IN  IF BlendCondition(cons, js)
        THEN [res EXCEPT !.llm_adjusted_score = Round4(consensus_overall),
                         !.final_score = Blended(det_overall, consensus_overall, llm_weight),
                         !.confidence = cons.confidence,
                         !.fallback_info = info]
        ELSE [res EXCEPT !.llm_adjusted_score = det_overall,
                         !.final_score = det_overall,
                         !.confidence = 100,
                         !.fallback_info = IF info = "" THEN "Low consensus confidence"
                                           ELSE info]

\* V1 orchestrator.py evaluate_single_submission, step 7: the blend is taken
\* only with confidence >= 0.5 and no hallucination flag; overall() is
\* rounded to 4 decimals in V1
v1_final_score(det_overall, llm_overall, confidence, flags, blend_weight) ==
    IF confidence >= 50 /\ flags = << >>
    THEN Blended(det_overall, llm_overall, blend_weight)
    ELSE det_overall

first_model_used(js) ==
    LET named == { i \in 1..Len(js) : js[i].model_used # "" }
    IN  IF named = {} THEN ""
        ELSE js[CHOOSE i \in named : \A j \in named : i <= j].model_used

blend ==
    /\ pc = "audited"
    /\ pc' = "done"
    /\ result' = [blend_result(result, cfg.scoring, consensus, judgments, h_flags)
                    EXCEPT !.model_used = IF consensus.model_used # ""
                                          THEN consensus.model_used
                                          ELSE first_model_used(judgments)]
    /\ UNCHANGED << sub, cfg, worker, raw, tsr1, tsr, artifact, det, judgments,
                    trace, consensus, h_flags, auxvars >>

\* ------------------------------------------------------------------------
\* Configurations
\* ------------------------------------------------------------------------
\* scoring.llm_weight and scoring.hallucination_llm_weight_reduction, in
\* percent: the defaults 0.4 / 0.5, and 0.5 with no reduction (1.0)
ScoringConfigs ==
    { [llm_weight |-> 40, reduction |-> 50],
      [llm_weight |-> 50, reduction |-> 100] }

ModelLists == { << >>, << "m1", "m2" >> }

NoConsensus ==
    [scores |-> ZeroScores, disagreements |-> {}, confidence |-> 0,
     model_used |-> "", path |-> "none"]

\* ------------------------------------------------------------------------
Init ==
    /\ pc = "start"
    /\ sub \in Submissions
    /\ cfg \in [llm_enabled : BOOLEAN, models : ModelLists, client : BOOLEAN,
                scoring : ScoringConfigs]
    /\ worker = [filesWritten |-> FALSE, spawned |-> FALSE, executed |-> FALSE,
                 harness |-> NoHarness]
    /\ raw = NoRaw
    /\ tsr1 = EmptyTSR
    /\ tsr = EmptyTSR
    /\ artifact = NoArtifact
    /\ det = ZeroScores
    /\ judgments = << >>
    /\ trace = << >>
    /\ consensus = NoConsensus
    /\ h_flags = << >>
    /\ result = NoResult
    /\ router = Idle /\ batch = Idle /\ cache = Idle /\ fn = Idle
    /\ judge1 = Idle

Next ==
    \/ run_in_sandbox
    \/ run_tests
    \/ parse_sandbox_output
    \/ det_evaluate
    \/ skip_llm
    \/ agent_run
    \/ consensus_run
    \/ hallucination_audit
    \/ blend

Spec == Init /\ [][Next]_vars

\* ========================================================================
\* Components examined on their own.  While one of them runs, the
\* evaluate_single pipeline above is not running.
\* ========================================================================
MainIdle ==
    /\ pc = "idle"
    /\ sub = BaseSub
    /\ cfg = [llm_enabled |-> FALSE, models |-> << >>, client |-> FALSE,
              scoring |-> [llm_weight |-> 40, reduction |-> 50]]
    /\ worker = [filesWritten |-> FALSE, spawned |-> FALSE, executed |-> FALSE,
                 harness |-> NoHarness]
    /\ raw = NoRaw
    /\ tsr1 = EmptyTSR
    /\ tsr = EmptyTSR
    /\ artifact = NoArtifact
    /\ det = ZeroScores
    /\ judgments = << >>
    /\ trace = << >>
    /\ consensus = NoConsensus
    /\ h_flags = << >>
    /\ result = NoResult

\* ------------------------------------------------------------------------
\* model_router.py query_models with provider_adapter.py invoke_with_retry,
\* one delivery attempt at a time.
\*   router.model    index of the model in the for loop
\*   router.attempt  the variable attempt of invoke_with_retry
\*   router.events   what happened so far: delivery attempts with their
\*                   outcome and time.sleep calls with their duration
\* ------------------------------------------------------------------------
\* largest llm.retry_attempts explored
MaxRetries == 3

\* what one invoke_model call yields: None, or text of the three kinds
Outcomes == {"none", "garbage", "no_scores", "ok"}

\* mutant: the wait is doubled once too often
BackoffWait_Doubled(attempt) == 2 ^ (attempt + 1)

\* "wait = 2 ** attempt"
BackoffWait(attempt) == 2 ^ attempt

AttemptEvent(m, a, out) == [e |-> "attempt", m |-> m, a |-> a, out |-> out, secs |-> 0]

SleepEvent(m, a, secs) == [e |-> "sleep", m |-> m, a |-> a, out |-> "", secs |-> secs]

RouterReturn(r, parsed, model_used) ==
    [r EXCEPT !.k = "returned", !.parsed = parsed, !.model_used = model_used]

\* the for loop of query_models moves to the next model, or falls out
NextModel(r) ==
    IF r.model < Len(r.models)
    THEN [r EXCEPT !.k = "attempt", !.model = r.model + 1, !.attempt = 0]
    ELSE RouterReturn(r, "None", "")

\* what query_models does with raw = None from invoke_with_retry
AfterNoResponse(r) == NextModel(r)

\* entry of query_models; with retries = 0 range(retries) is empty, every
\* invoke_with_retry returns None without an attempt
query_models_begin ==
    /\ router.k = "call"
    /\ router' = IF ~router.client THEN RouterReturn(router, "None", "")
                 ELSE IF router.models = << >> THEN RouterReturn(router, "None", "")
                 ELSE IF router.retries = 0
                      THEN RouterReturn(router, "None", "")
                      ELSE [router EXCEPT !.k = "attempt", !.model = 1, !.attempt = 0]
    /\ UNCHANGED << mainvars, batch, cache, fn, judge1 >>

\* one pass through the body of the for loop of invoke_with_retry
invoke_model ==
    /\ router.k = "attempt"
    /\ \E out \in Outcomes :
         LET logged == [router EXCEPT !.events =
                           Append(@, AttemptEvent(router.model, router.attempt, out))]
         IN  router' =
               IF out = "none"
               THEN IF router.attempt < router.retries - 1
                    THEN [logged EXCEPT !.k = "sleep"]
                    ELSE AfterNoResponse(logged)
               ELSE IF out = "ok"
                    THEN RouterReturn(logged, "scores", router.models[router.model])
                    ELSE NextModel(logged)
    /\ UNCHANGED << mainvars, batch, cache, fn, judge1 >>

\* time.sleep(wait), then the next attempt
backoff_sleep ==
    /\ router.k = "sleep"
    /\ router' = [router EXCEPT
                    !.k = "attempt",
                    !.attempt = router.attempt + 1,
                    !.events = Append(@, SleepEvent(router.model, router.attempt,
                                                    BackoffWait(router.attempt)))]
    /\ UNCHANGED << mainvars, batch, cache, fn, judge1 >>

RouterInit ==
    /\ MainIdle
    /\ batch = Idle /\ cache = Idle /\ fn = Idle
    /\ judge1 = Idle
    /\ \E models \in {<< >>, << "m1" >>, << "m1", "m2" >>},
          retries \in 0..MaxRetries, client \in BOOLEAN :
         router = [k |-> "call", models |-> models, retries |-> retries,
                   client |-> client, model |-> 0, attempt |-> 0,
                   events |-> << >>, parsed |-> "", model_used |-> ""]

RouterNext == query_models_begin \/ invoke_model \/ backoff_sleep

SpecRouter == RouterInit /\ [][RouterNext]_vars

\* ------------------------------------------------------------------------
\* Pure functions applied to inputs drawn from bounded sets.
\*   fn.k    the function applied ("ready" before the call)
\*   fn.in   its arguments, fn.out its result
\* ------------------------------------------------------------------------
\* inputs of hallucination_auditor.audit
AuditCorrectness == {0, 20000, 30000, 50000, 70000, 90000}

AuditHighLow == {80000, 90000}

AuditPassRates == { [n |-> k, d |-> 10] : k \in {2, 5, 7, 8, 9, 10} }

AuditWarnings == {5, 6}

\* deterministic minus consensus, on one dimension at a time
AuditOffsets == {0, 30000, 30100, -30000, -30100}

audit_call ==
    /\ fn.k = "ready"
    /\ \E c \in AuditCorrectness, e \in AuditHighLow, st \in AuditHighLow,
          pr \in AuditPassRates, w \in AuditWarnings,
          to \in BOOLEAN, viol \in BOOLEAN,
          dim \in DimSet, off \in AuditOffsets :
         LET cs == [correctness |-> c, edge_cases |-> e, complexity |-> 50000,
                    style |-> st, clarity |-> 50000]
             det_scores == [cs EXCEPT ![dim] = cs[dim] + off]
             cons == [NoConsensus EXCEPT !.scores = cs, !.path = "meta"]
             art == [NoArtifact EXCEPT !.test_results.pass_rate = pr,
                                       !.test_results.total = 10,
                                       !.test_results.passed = pr.n,
                                       !.static_warnings = w,
                                       !.timeout = to,
                                       !.sandbox_violation = viol]
         IN  fn' = [k |-> "audit",
                    in |-> [det_scores |-> det_scores, consensus |-> cons,
                            artifact |-> art],
                    out |-> audit(det_scores, cons, art)]
    /\ UNCHANGED << mainvars, router, batch, cache, judge1 >>

\* inputs of consensus_agent.run_deterministic_consensus: up to three
\* judgments, each a fallback or a real opinion
ConsensusDet == [d \in DimSet |-> 50000]

JudgeOpinions ==
    { [agent_name |-> "judge", scores |-> ConsensusDet, confidence |-> 30,
       model_used |-> "", fallback |-> TRUE] }
    \cup
    { [agent_name |-> "judge", scores |-> [d \in DimSet |-> v], confidence |-> c,
       model_used |-> "m1", fallback |-> FALSE] : v \in {0, TEN}, c \in {0, 10, 100} }

consensus_call ==
    /\ fn.k = "ready"
    /\ \E n \in 0..3 : \E js \in [1..n -> JudgeOpinions] :
         fn' = [k |-> "consensus",
                in |-> [det_scores |-> ConsensusDet, judgments |-> js],
                out |-> run_deterministic_consensus(ConsensusDet, js)]
    /\ UNCHANGED << mainvars, router, batch, cache, judge1 >>

\* ------------------------------------------------------------------------
\* evaluate_all: the loop over the discovered submissions.  A submission is
\* described by whether its evaluate_single returns or raises; V2 calls it
\* bare, V1 inside try / except Exception.
\* ------------------------------------------------------------------------
MaxSubs == 4

SubmissionRuns ==
    UNION { [1..n -> {"returns", "raises"}] : n \in 0..MaxSubs }

BatchResult(i, failed) == [sub |-> i, error |-> failed]

\* r = evaluate_single(...); results.append(r)
evaluate_single_returns ==
    /\ batch.k = "loop"
    /\ batch.i <= Len(batch.subs)
    /\ batch.subs[batch.i] = "returns"
    /\ batch' = [batch EXCEPT !.i = @ + 1,
                               !.results = Append(@, BatchResult(batch.i, FALSE))]
    /\ UNCHANGED << mainvars, router, cache, fn, judge1 >>

\* V1: the except clause appends an error result and the loop goes on;
\* V2: nothing catches, evaluate_all is left by the exception
evaluate_single_raises ==
    /\ batch.k = "loop"
    /\ batch.i <= Len(batch.subs)
    /\ batch.subs[batch.i] = "raises"
    /\ batch' = IF batch.impl = "V1"
                 THEN [batch EXCEPT !.i = @ + 1,
                                    !.results = Append(@, BatchResult(batch.i, TRUE))]
                 ELSE [batch EXCEPT !.k = "raised", !.results = << >>]
    /\ UNCHANGED << mainvars, router, cache, fn, judge1 >>

\* return results
evaluate_all_return ==
    /\ batch.k = "loop"
    /\ batch.i > Len(batch.subs)
    /\ batch' = [batch EXCEPT !.k = "returned"]
    /\ UNCHANGED << mainvars, router, cache, fn, judge1 >>

BatchInit ==
    /\ MainIdle
    /\ router = Idle /\ cache = Idle /\ fn = Idle
    /\ judge1 = Idle
    /\ \E impl \in {"V1", "V2"}, subs \in SubmissionRuns :
         batch = [k |-> "loop", impl |-> impl, subs |-> subs, i |-> 1,
                  results |-> << >>]

BatchNext ==
    \/ evaluate_single_returns
    \/ evaluate_single_raises
    \/ evaluate_all_return

SpecBatch == BatchInit /\ [][BatchNext]_vars

\* ------------------------------------------------------------------------
\* _query_model_tasks and its module-level _task_cache, called from
\* several threads.  Each caller runs the function's three steps: the
\* membership test, the HTTP request, the assignment to the cache.  The
\* cache keeps, besides the dict itself, how often the endpoint was asked
\* and whether an entry was replaced by a different value.
\* ------------------------------------------------------------------------
MaxCalls == 2

Callers == {"t1", "t2"}

ModelIds == {"m1", "m2"}

\* what one request yields: the tasks of the metadata, or the empty set
\* after a failed request or a status other than 200
TaskSets ==
    {{}, {"fill-mask"}, {"conversational"}, {"conversational", "text-generation"}}

CallerIdle(n) == [pc |-> "idle", model |-> "", tasks |-> {}, calls |-> n]

\* if model_id in _task_cache: return _task_cache[model_id]
query_model_tasks_lookup ==
    /\ cache.k = "run"
    /\ \E t \in Callers, model_id \in ModelIds :
         /\ cache.thr[t].pc = "idle"
         /\ cache.thr[t].calls < MaxCalls
         /\ IF model_id \in cache.keys
            THEN cache' = [cache EXCEPT
                    !.thr[t] = CallerIdle(cache.thr[t].calls + 1),
                    !.seen[model_id] = @ \cup {cache.dict[model_id]}]
            ELSE cache' = [cache EXCEPT
                    !.thr[t] = [pc |-> "missed", model |-> model_id,
                                tasks |-> {}, calls |-> cache.thr[t].calls + 1]]
    /\ UNCHANGED << mainvars, router, batch, fn, judge1 >>

\* resp = requests.get(url, timeout=10) and the reading of the reply
query_model_tasks_get ==
    /\ cache.k = "run"
    /\ \E t \in Callers, tasks \in TaskSets :
         /\ cache.thr[t].pc = "missed"
         /\ cache' = [cache EXCEPT
                 !.thr[t].pc = "fetched",
                 !.thr[t].tasks = tasks,
                 !.queries[cache.thr[t].model] = @ + 1]
    /\ UNCHANGED << mainvars, router, batch, fn, judge1 >>

\* _task_cache[model_id] = tasks; return tasks
query_model_tasks_store ==
    /\ cache.k = "run"
    /\ \E t \in Callers :
         /\ cache.thr[t].pc = "fetched"
         /\ LET model_id == cache.thr[t].model
                tasks == cache.thr[t].tasks
            IN  cache' = [cache EXCEPT
                    !.thr[t] = CallerIdle(cache.thr[t].calls),
                    !.keys = @ \cup {model_id},
                    !.dict[model_id] = tasks,
                    !.seen[model_id] = @ \cup {tasks},
                    !.changed[model_id] =
                        @ \/ (model_id \in cache.keys
                               /\ cache.dict[model_id] # tasks)]
    /\ UNCHANGED << mainvars, router, batch, fn, judge1 >>

CacheInit ==
    /\ MainIdle
    /\ router = Idle /\ batch = Idle /\ fn = Idle
    /\ judge1 = Idle
    /\ cache = [k |-> "run",
                keys |-> {},
                dict |-> [m \in ModelIds |-> {}],
                queries |-> [m \in ModelIds |-> 0],
                changed |-> [m \in ModelIds |-> FALSE],
                seen |-> [m \in ModelIds |-> {}],
                thr |-> [t \in Callers |-> CallerIdle(0)]]

CacheNext ==
    \/ query_model_tasks_lookup
    \/ query_model_tasks_get
    \/ query_model_tasks_store

SpecCache == CacheInit /\ [][CacheNext]_vars

\* ------------------------------------------------------------------------
\* invoke_with_retry and invoke_model of provider_adapter.py, called one
\* after the other by the judge roles.  The cache variable holds the dict,
\* the invoke_with_retry call in progress and the log of the invoke_model
\* calls made so far:
\*   cached     model_id was in _task_cache when the call began
\*   requested  the call sent the metadata request
\*   tasks      the set _query_model_tasks returned
\*   contacts   requests sent to the inference client (chat, generation)
\*   result     "text" or "None"
\*   wait       seconds slept after the call
\* ------------------------------------------------------------------------
MaxInvokes == 2

\* mutant: the chat request is sent whatever the tasks are
ChatSupported_Always(tasks) == TRUE

\* "conversational" in tasks or "text-generation" in tasks
ChatSupported(tasks) == "conversational" \in tasks \/ "text-generation" \in tasks

\* what the two strategies can end in for a task set: the number of
\* requests sent to the client and the result
InvokeEndings(tasks) ==
    LET chat == ChatSupported(tasks)
        gen == "text-generation" \in tasks
    IN  (IF chat THEN {[contacts |-> 1, result |-> "text"]} ELSE {})
        \cup (IF gen THEN {[contacts |-> (IF chat THEN 2 ELSE 1), result |-> r] :
                              r \in {"text", "None"}}
              ELSE {[contacts |-> (IF chat THEN 1 ELSE 0), result |-> "None"]})

\* for attempt in range(retries): the loop is entered for a model
invoke_with_retry_begin ==
    /\ cache.k = "seq"
    /\ cache.model = ""
    /\ cache.invokes < MaxInvokes
    /\ \E model_id \in ModelIds, retries \in 1..MaxRetries :
         cache' = [cache EXCEPT !.model = model_id, !.retries = retries,
                                !.attempt = 0, !.invokes = @ + 1]
    /\ UNCHANGED << mainvars, router, batch, fn, judge1 >>

\* one invoke_model call of the loop, with what follows it in the loop
provider_invoke_model ==
    /\ cache.k = "seq"
    /\ cache.model # ""
    /\ LET model_id == cache.model
           cached == model_id \in cache.keys
       IN  \E fetched \in TaskSets :
             LET tasks == IF cached THEN cache.dict[model_id] ELSE fetched
             IN  \E e \in InvokeEndings(tasks) :
                   LET last == cache.attempt + 1 = cache.retries
                       wait == IF e.result = "None" /\ ~last
                               THEN BackoffWait(cache.attempt) ELSE 0
                   IN  cache' = [cache EXCEPT
                          !.keys = @ \cup {model_id},
                          !.dict[model_id] = tasks,
                          !.attempt = @ + 1,
                          !.model = IF e.result = "text" \/ last THEN ""
                                    ELSE model_id,
                          !.log = Append(@, [model |-> model_id,
                                             cached |-> cached,
                                             requested |-> ~cached,
                                             tasks |-> tasks,
                                             contacts |-> e.contacts,
                                             result |-> e.result,
                                             wait |-> wait])]
    /\ UNCHANGED << mainvars, router, batch, fn, judge1 >>

InvokeInit ==
    /\ MainIdle
    /\ router = Idle /\ batch = Idle /\ fn = Idle /\ judge1 = Idle
    /\ cache = [k |-> "seq", keys |-> {}, dict |-> [m \in ModelIds |-> {}],
                model |-> "", retries |-> 0, attempt |-> 0, invokes |-> 0,
                log |-> << >>]

InvokeNext ==
    \/ invoke_with_retry_begin
    \/ provider_invoke_model

SpecInvoke == InvokeInit /\ [][InvokeNext]_vars

\* ------------------------------------------------------------------------
\* V1 llm_judge.judge_submission.  An invocation of a model ends in one of
\*   "valid"        _parse_llm_response returns the data and _build_judgment
\*                  returns the judgment
\*   "unbuildable"  _parse_llm_response returns the data (a scores object
\*                  with the five keys) but a score or the confidence is
\*                  not a number, and _clamp raises inside _build_judgment
\*   "malformed"    _parse_llm_response returns None
\*   "loading"      _invoke_model raises with 503 or "loading" in the text
\*   "error"        _invoke_model raises anything else
\* ------------------------------------------------------------------------
FALLBACK_MODELS == << "fallback_1", "fallback_2" >>

InvokeOutcomes == {"valid", "unbuildable", "malformed", "loading", "error"}

\* mutant: the judgment is returned for every response that parses
Usable_ParsedOnly(outcome) == outcome \in {"valid", "unbuildable"}

\* the return inside the try block is reached: parsed is not None and
\* _build_judgment does not raise
Usable(outcome) == outcome = "valid"

Invocation(model, outcome) == [model |-> model, outcome |-> outcome]

JudgeReturn(j, ret) == [j EXCEPT !.k = "returned", !.ret = ret]

\* api_token = _get_api_token(), or the fallback judgment without it
judge_submission_begin ==
    /\ judge1.k = "start"
    /\ judge1' = IF judge1.token THEN [judge1 EXCEPT !.k = "primary"]
                  ELSE JudgeReturn(judge1, "fallback")
    /\ UNCHANGED << mainvars, router, batch, cache, fn >>

\* one round of "for attempt in range(2)"
invoke_primary ==
    /\ judge1.k = "primary"
    /\ \E outcome \in InvokeOutcomes :
         LET called == [judge1 EXCEPT
                          !.calls = Append(@, Invocation("primary", outcome))]
             next == [called EXCEPT
                        !.attempt = @ + 1,
                        !.sleeps = IF outcome = "loading" THEN @ + 1 ELSE @,
                        !.k = IF judge1.attempt + 1 < 2 THEN "primary"
                              ELSE "fallback"]
         IN  judge1' = IF Usable(outcome) THEN JudgeReturn(called, "judgment")
                       ELSE next
    /\ UNCHANGED << mainvars, router, batch, cache, fn >>

\* one round of "for fb_model in FALLBACK_MODELS"
invoke_fallback ==
    /\ judge1.k = "fallback"
    /\ judge1.fb <= Len(FALLBACK_MODELS)
    /\ \E outcome \in InvokeOutcomes :
         LET called == [judge1 EXCEPT
                          !.calls = Append(@, Invocation(FALLBACK_MODELS[judge1.fb],
                                                         outcome))]
         IN  judge1' = IF Usable(outcome) THEN JudgeReturn(called, "judgment")
                       ELSE [called EXCEPT !.fb = @ + 1]
    /\ UNCHANGED << mainvars, router, batch, cache, fn >>

\* return _fallback_judgment(deterministic_scores)
all_attempts_failed ==
    /\ judge1.k = "fallback"
    /\ judge1.fb > Len(FALLBACK_MODELS)
    /\ judge1' = JudgeReturn(judge1, "fallback")
    /\ UNCHANGED << mainvars, router, batch, cache, fn >>

JudgeInit ==
    /\ MainIdle
    /\ router = Idle /\ batch = Idle /\ cache = Idle /\ fn = Idle
    /\ \E token \in BOOLEAN :
         judge1 = [k |-> "start", token |-> token, attempt |-> 0, fb |-> 1,
                   sleeps |-> 0, calls |-> << >>, ret |-> "none"]

JudgeNext ==
    \/ judge_submission_begin
    \/ invoke_primary
    \/ invoke_fallback
    \/ all_attempts_failed

\* the function is sequential code: a step that can be taken is taken
SpecJudge == JudgeInit /\ [][JudgeNext]_vars /\ WF_vars(JudgeNext)

\* ------------------------------------------------------------------------
\* Exceptions.  Payloads are described by the Python type json.loads gives
\* them; a function yields "" when it returns and the name of the exception
\* when it raises.
\* ------------------------------------------------------------------------
\* what follows the sentinel in the worker's stdout
WorkerPayloads ==
    [json : {"object", "array", "number", "string", "invalid"},
     counts : {"number", "text"}]

\* V2 parse_sandbox_output: only json.JSONDecodeError is caught;
\* data.get needs a dict, "total > 0" and "passed / total" need numbers
parse_sandbox_output_raises(payload) ==
    IF payload.json = "invalid" THEN ""
    ELSE IF payload.json # "object" THEN "AttributeError"
    ELSE IF payload.counts = "text" THEN "TypeError"
    ELSE ""

\* what a model answers: the JSON value _extract_json returns ("string" is
\* a JSON string in which the word scores occurs), its "scores" member and
\* its "confidence" member
ModelPayloads ==
    [json : {"object", "array", "number", "string"},
     scores : {"object", "array", "number", "absent"},
     confidence : {"number", "text", "absent"}]

\* query_models: '"scores" in parsed' on a number is a TypeError
query_models_raises(resp) == IF resp.json = "number" THEN "TypeError" ELSE ""

\* '"scores" in parsed': key of a dict, element of a list, substring of a str
ScoresIn(resp) ==
    \/ resp.json = "object" /\ resp.scores # "absent"
    \/ resp.json = "string"

\* the role's run(): parsed["scores"] on a str is a TypeError, s.get on
\* anything but a dict an AttributeError; confidence is stored as it came
agent_run_raises(resp) ==
    IF ~ScoresIn(resp) THEN ""
    ELSE IF resp.json = "string" THEN "TypeError"
    ELSE IF resp.scores # "object" THEN "AttributeError"
    ELSE ""

\* a fallback = false judgment is returned
JudgmentReal(resp) == ScoresIn(resp) /\ agent_run_raises(resp) = ""

\* consensus run(): without a meta-judge reply run_deterministic_consensus
\* multiplies the score by j.confidence
consensus_run_raises(resp, meta) ==
    IF JudgmentReal(resp) /\ meta = "none" /\ resp.confidence = "text"
    THEN "TypeError" ELSE ""

\* evaluate_single: "consensus.confidence >= 0.4" with the meta-judge's
\* confidence
blend_raises(resp, meta) ==
    IF JudgmentReal(resp) /\ meta = "text_confidence" THEN "TypeError" ELSE ""

FirstRaised(seq) ==
    LET raised == { i \in 1..Len(seq) : seq[i] # "" }
    IN  IF raised = {} THEN ""
        ELSE seq[CHOOSE i \in raised : \A j \in raised : i <= j]

parse_sandbox_output_call ==
    /\ fn.k = "ready"
    /\ \E payload \in WorkerPayloads :
         fn' = [k |-> "parse", in |-> payload,
                out |-> parse_sandbox_output_raises(payload)]
    /\ UNCHANGED << mainvars, router, batch, cache, judge1 >>

\* one specialist, then consensus and blending, on one model response
judge_layer_call ==
    /\ fn.k = "ready"
    /\ \E resp \in ModelPayloads, meta \in {"none", "ok", "text_confidence"} :
         fn' = [k |-> "judge", in |-> [resp |-> resp, meta |-> meta],
                out |-> FirstRaised(<< query_models_raises(resp),
                                       agent_run_raises(resp),
                                       consensus_run_raises(resp, meta),
                                       blend_raises(resp, meta) >>)]
    /\ UNCHANGED << mainvars, router, batch, cache, judge1 >>

\* ------------------------------------------------------------------------
\* strip_comments.  A line is a sequence of characters: "Q" the double
\* quote, "A" the apostrophe, "B" the backslash, "H" the hash sign and "x"
\* any other non-blank character.  Lines carry no blanks, so that
\* line.strip() and rstrip() return their argument.
\* ------------------------------------------------------------------------
MaxLen == 6

MaxBlockLen == 4

MaxLines == 3

Chars == {"Q", "A", "B", "H", "x"}

BlockChars == {"Q", "H", "x"}

LinesOver(alphabet, n) == UNION { [1..k -> alphabet] : k \in 0..n }

IsTripleAt(line, i, q) ==
    /\ i + 2 <= Len(line)
    /\ line[i] = q /\ line[i + 1] = q /\ line[i + 2] = q

\* docstring_char in stripped
ContainsTriple(line, q) == \E i \in 1..Len(line) : IsTripleAt(line, i, q)

\* stripped.count(docstring_char): occurrences that do not overlap
RECURSIVE CountTriple(_, _, _)
CountTriple(line, i, q) ==
    IF i > Len(line) THEN 0
    ELSE IF IsTripleAt(line, i, q) THEN 1 + CountTriple(line, i + 3, q)
    ELSE CountTriple(line, i + 1, q)

\* the scan for the comment: the position of the first "#" met while
\* in_quote is false, 0 when there is none
RECURSIVE CommentPos(_, _, _, _)
CommentPos(line, i, in_quote, quote_char) ==
    IF i > Len(line) THEN 0
    ELSE LET ch == line[i]
         IN  IF ch \in {"Q", "A"} /\ ~in_quote
             THEN CommentPos(line, i + 1, TRUE, ch)
             ELSE IF ch = quote_char /\ in_quote
             THEN CommentPos(line, i + 1, FALSE, quote_char)
             ELSE IF ch = "H" /\ ~in_quote
             THEN i
             ELSE CommentPos(line, i + 1, in_quote, quote_char)

LoopStart == [in_docstring |-> FALSE, docstring_char |-> ""]

\* one round of the loop over the lines.  cut is the first position of the
\* line that does not reach the output: 1 when the line is skipped,
\* Len(line) + 1 when it is appended whole
strip_line(line, st) ==
    IF st.in_docstring
    THEN [cut |-> 1, docstring_char |-> st.docstring_char,
          in_docstring |-> ~(st.docstring_char # ""
                             /\ ContainsTriple(line, st.docstring_char))]
    ELSE IF IsTripleAt(line, 1, "Q") \/ IsTripleAt(line, 1, "A")
    THEN [cut |-> 1, docstring_char |-> line[1],
          in_docstring |-> ~(CountTriple(line, 1, line[1]) >= 2)]
    ELSE LET comment_pos == IF \E i \in 1..Len(line) : line[i] = "H"
                            THEN CommentPos(line, 1, FALSE, "")
                            ELSE 0
         IN  [cut |-> IF comment_pos > 0 THEN comment_pos ELSE Len(line) + 1,
              docstring_char |-> st.docstring_char,
              in_docstring |-> FALSE]

\* Python's own reading of the line, against which the function is
\* judged.  The lexer is outside a string ("out"), inside a string with one
\* quote ("s") or inside a triple-quoted string ("t"); doc marks a string
\* that opens a line, which is taken to be a documentation block.
LexStart == [m |-> "out", q |-> "", doc |-> FALSE, esc |-> FALSE]

\* flags[i]: character i belongs to a string literal that is not a
\* documentation block
RECURSIVE Lex(_, _, _, _)
Lex(line, i, st, flags) ==
    IF i > Len(line) THEN [flags |-> flags, st |-> [st EXCEPT !.esc = FALSE]]
    ELSE LET c == line[i]
             lit == ~st.doc
         IN  IF st.m = "out"
             THEN IF c \in {"Q", "A"}
                  THEN IF IsTripleAt(line, i, c)
                       THEN Lex(line, i + 3,
                                [m |-> "t", q |-> c, doc |-> (i = 1), esc |-> FALSE],
                                flags \o << i # 1, i # 1, i # 1 >>)
                       ELSE Lex(line, i + 1,
                                [m |-> "s", q |-> c, doc |-> (i = 1), esc |-> FALSE],
                                Append(flags, i # 1))
                  ELSE IF c = "H"
                  THEN [flags |-> flags \o [k \in 1..(Len(line) - i + 1) |-> FALSE],
                        st |-> st]
                  ELSE Lex(line, i + 1, st, Append(flags, FALSE))
             ELSE IF st.esc
             THEN Lex(line, i + 1, [st EXCEPT !.esc = FALSE], Append(flags, lit))
             ELSE IF c = "B"
             THEN Lex(line, i + 1, [st EXCEPT !.esc = TRUE], Append(flags, lit))
             ELSE IF st.m = "s" /\ c = st.q
             THEN Lex(line, i + 1, LexStart, Append(flags, lit))
             ELSE IF st.m = "t" /\ IsTripleAt(line, i, st.q)
             THEN Lex(line, i + 3, LexStart, flags \o << lit, lit, lit >>)
             ELSE Lex(line, i + 1, st, Append(flags, lit))

\* a character of a string literal that is not a documentation block does
\* not reach the output
Damaged(line, cut, flags) ==
    \E i \in 1..Len(line) : i >= cut /\ flags[i]

\* a "#" inside such a literal does not reach the output
HashLost(line, cut, flags) ==
    \E i \in 1..Len(line) : i >= cut /\ flags[i] /\ line[i] = "H"

StripRound(line, n, cst, lst, damaged, hash_lost) ==
    LET c == strip_line(line, cst)
        l == Lex(line, 1, lst, << >>)
    IN  [k |-> "strip", n |-> n, line |-> line, cut |-> c.cut,
         cst |-> [in_docstring |-> c.in_docstring,
                  docstring_char |-> c.docstring_char],
         lst |-> l.st,
         damaged |-> damaged \/ Damaged(line, c.cut, l.flags),
         hash_lost |-> hash_lost \/ HashLost(line, c.cut, l.flags)]

\* strip_comments on a text of one line
strip_comments_line ==
    /\ fn.k = "ready"
    /\ \E line \in LinesOver(Chars, MaxLen) :
         fn' = [StripRound(line, 1, LoopStart, LexStart, FALSE, FALSE)
                    EXCEPT !.k = "strip1"]
    /\ UNCHANGED << mainvars, router, batch, cache, judge1 >>

\* strip_comments on a text of several lines: the first round of the loop
strip_comments_begin ==
    /\ fn.k = "ready"
    /\ \E line \in LinesOver(BlockChars, MaxBlockLen) :
         fn' = StripRound(line, 1, LoopStart, LexStart, FALSE, FALSE)
    /\ UNCHANGED << mainvars, router, batch, cache, judge1 >>

\* a further round; a line that ends inside a one-quote string is not
\* Python and is not continued
strip_comments_next ==
    /\ fn.k = "strip"
    /\ fn.n < MaxLines
    /\ fn.lst.m # "s"
    /\ \E line \in LinesOver(BlockChars, MaxBlockLen) :
         fn' = StripRound(line, fn.n + 1, fn.cst, fn.lst, fn.damaged,
                          fn.hash_lost)
    /\ UNCHANGED << mainvars, router, batch, cache, judge1 >>

\* ------------------------------------------------------------------------
\* compute_edge_cases on the outcome of a suite of up to MaxTotal tests
\* ------------------------------------------------------------------------
MaxTotal == 6

SuiteOutcome(passed, total) ==
    [EmptyTSR EXCEPT !.total = total, !.passed = passed,
                     !.failed = total - passed,
                     !.pass_rate = [n |-> passed, d |-> total]]

compute_edge_cases_call ==
    /\ fn.k = "ready"
    /\ \E total \in 1..MaxTotal : \E passed \in 0..total :
         fn' = [k |-> "edge_cases",
                in |-> [passed |-> passed, total |-> total],
                out |-> compute_edge_cases(SuiteOutcome(passed, total))]
    /\ UNCHANGED << mainvars, router, batch, cache, judge1 >>

\* ------------------------------------------------------------------------
\* _has_recursion and compute_complexity on a source that defines the
\* functions f and g.  calls holds a pair << caller, callee >> for every
\* call whose func is a plain name; len is a built-in.
\* ------------------------------------------------------------------------
FuncDefs == {"f", "g"}

CallGraphs == SUBSET (FuncDefs \X {"f", "g", "len"})

Expectations == {"O(n)", "O(V+E)", "O(n^2)", "O(1)"}

\* a Call node whose func is a Name with an id in func_names: the caller
\* plays no part
has_recursion(func_names, calls) == \E c \in calls : c[2] \in func_names

compute_complexity_call ==
    /\ fn.k = "ready"
    /\ \E calls \in CallGraphs, has_memo \in BOOLEAN, depth \in 0..3,
          expected \in Expectations :
         fn' = [k |-> "complexity",
                in |-> [calls |-> calls, has_memo |-> has_memo,
                        depth |-> depth, expected |-> expected],
                out |-> compute_complexity(
                            [BaseSub EXCEPT
                               !.loopDepth = depth,
                               !.recursion = has_recursion(FuncDefs, calls),
                               !.memo = has_memo,
                               !.expected = expected])]
    /\ UNCHANGED << mainvars, router, batch, cache, judge1 >>

\* ------------------------------------------------------------------------
\* check_code_safety on sources with every form of import statement
\* ------------------------------------------------------------------------
ImportForms ==
    { ImportStmt("import", "math", 0, ""),
      ImportStmt("import", "os", 0, ""),
      ImportStmt("import", "os.path", 0, ""),
      ImportStmt("import", "collections.abc", 0, ""),
      ImportStmt("from", "math", 0, "sqrt"),
      ImportStmt("from", "os", 0, "path"),
      ImportStmt("from", "os", 1, "path"),
      ImportStmt("from", "", 1, "math"),
      ImportStmt("from", "", 1, "os") }

check_code_safety_call ==
    /\ fn.k = "ready"
    /\ \E imports \in SUBSET ImportForms, syntaxOK \in BOOLEAN,
          calls \in {{"len"}, {"len", "eval"}},
          attrs \in {{"append"}, {"append", "system"}} :
         LET code == [BaseSub EXCEPT !.syntaxOK = syntaxOK, !.imports = imports,
                                     !.calls = calls, !.attrs = attrs]
         IN  fn' = [k |-> "safety",
                    in |-> [syntaxOK |-> syntaxOK, imports |-> imports,
                            calls |-> calls, attrs |-> attrs],
                    out |-> check_code_safety(code)]
    /\ UNCHANGED << mainvars, router, batch, cache, judge1 >>

FnInit ==
    /\ MainIdle
    /\ router = Idle /\ batch = Idle /\ cache = Idle
    /\ judge1 = Idle
    /\ fn = [k |-> "ready"]

FnNext ==
    \/ audit_call
    \/ consensus_call
    \/ parse_sandbox_output_call
    \/ judge_layer_call
    \/ strip_comments_line
    \/ strip_comments_begin
    \/ strip_comments_next
    \/ compute_edge_cases_call
    \/ compute_complexity_call
    \/ check_code_safety_call

SpecFn == FnInit /\ [][FnNext]_vars

\* ========================================================================
\* Properties
\* ========================================================================
JudgesRan == cfg.llm_enabled /\ cfg.models # << >>

SomeJudgeReal == \E i \in 1..Len(judgments) : ~judgments[i].fallback

\* ------------------------------------------------------------------------
\* C1: with judges enabled and a model configured, final_score is the
\* 4-decimal rounding of det*(1-w) + consensus*w exactly when
\* consensus.confidence >= 0.4 and some judge has fallback = false, and is
\* deterministic_overall in every other case; w is the configured weight,
\* multiplied by the reduction factor exactly when the flag list is
\* non-empty.
\* ------------------------------------------------------------------------
\* the weight in 1/10000
C1_Weight100 ==
    IF h_flags # << >> THEN cfg.scoring.llm_weight * cfg.scoring.reduction
    ELSE cfg.scoring.llm_weight * 100

C1_BlendFormula ==
    (pc = "done" /\ JudgesRan) =>
        IF consensus.confidence >= 40 /\ SomeJudgeReal
        THEN /\ result.final_score % 100 = 0
             /\ LET w == C1_Weight100 \div 100
                    exact == result.deterministic_score * (100 - w)
                             + overall(consensus.scores) * w
                IN  /\ C1_Weight100 % 100 = 0
                    /\ Abs(result.final_score * 100 - exact) <= 5000
        ELSE result.final_score = result.deterministic_score

C1_Witness ==
    /\ pc = "done" /\ JudgesRan
    /\ consensus.confidence >= 40 /\ SomeJudgeReal
    /\ h_flags # << >>
    /\ cfg.scoring.reduction < 100
    /\ result.final_score # result.deterministic_score

\* ------------------------------------------------------------------------
\* C2: whenever the blend path is not taken, final_score =
\* llm_adjusted_score = deterministic_score, confidence = 1.0 and
\* fallback_info is a reason why the deterministic score was used.
\* ------------------------------------------------------------------------
DeterministicOnlyReasons ==
    {"LLM disabled", "No models configured", "Low consensus confidence"}

BlendTaken == JudgesRan /\ consensus.confidence >= 40 /\ SomeJudgeReal

C2_DeterministicFallback ==
    (pc = "done" /\ ~BlendTaken) =>
        /\ result.final_score = result.deterministic_score
        /\ result.llm_adjusted_score = result.deterministic_score
        /\ result.confidence = 100
        /\ result.fallback_info \in DeterministicOnlyReasons
\* ------------------------------------------------------------------------
\* C3: two blender runs that differ only in the flag list (non-empty /
\* empty), with consensus_overall # deterministic_overall: the flagged
\* final_score is strictly closer to the deterministic score, for every
\* configured weight and reduction factor.
\* ------------------------------------------------------------------------
SampleFlags == << [dimension |-> "correctness", severity |-> "high", rule |-> "sample"] >>

\* llm_weight and hallucination_llm_weight_reduction values, in percent,
\* for which the two runs are compared
BlendConfigs == [llm_weight : {0, 40, 50}, reduction : {0, 50, 100}]

FinalWith(flags, scoring) ==
    blend_result(result, scoring, consensus, judgments, flags).final_score

DistFlagged(scoring) ==
    Abs(FinalWith(SampleFlags, scoring) - result.deterministic_score)

DistUnflagged(scoring) ==
    Abs(FinalWith(<< >>, scoring) - result.deterministic_score)

\* the same two runs through the V1 blender
V1Dist(flags, scoring) ==
    Abs(v1_final_score(Round4(result.deterministic_score),
                       Round4(overall(consensus.scores)),
                       consensus.confidence, flags, scoring.llm_weight)
        - Round4(result.deterministic_score))

OverallsDiffer == overall(consensus.scores) # result.deterministic_score

\* the claim as stated
C3_StrictlyCloserAlways ==
    (pc = "audited" /\ OverallsDiffer) =>
        \A scoring \in BlendConfigs : DistFlagged(scoring) < DistUnflagged(scoring)

\* distance between the two exact blends, unit 1/10^8 point
BlendGap(scoring) ==
    Abs(overall(consensus.scores) - result.deterministic_score)
    * (scoring.llm_weight - (scoring.llm_weight * scoring.reduction) \div 100)

\* the two blends are at least two rounding steps (0.0002) apart
C3_StrictCase(scoring) ==
    /\ BlendCondition(consensus, judgments)
    /\ scoring.llm_weight > 0
    /\ scoring.reduction > 0 /\ scoring.reduction < 100
    /\ BlendGap(scoring) >= 20000

\* C3 as amended: never farther; strictly closer when the blend path is
\* taken, the weight is positive, the reduction factor lies strictly between
\* 0 and 1 and the two blends differ by at least 0.0002.  In V1 a flagged
\* run reports the deterministic score itself.
C3_CloserWhenBlended ==
    pc = "audited" =>
        \A scoring \in BlendConfigs :
            /\ DistFlagged(scoring) <= DistUnflagged(scoring)
            /\ C3_StrictCase(scoring) => DistFlagged(scoring) < DistUnflagged(scoring)
            /\ V1Dist(SampleFlags, scoring) = 0

C3_Witness ==
    /\ pc = "audited"
    /\ h_flags # << >>
    /\ OverallsDiffer
    /\ C3_StrictCase(cfg.scoring)

\* ------------------------------------------------------------------------
\* C4: when every specialist judge fell back, the consensus step queries no
\* meta-judge model, consensus.scores is the deterministic rubric,
\* consensus.confidence <= 0.3 and final_score = deterministic_score.
\* ------------------------------------------------------------------------
C4_AllFallback ==
    (pc \in {"consensus", "audited", "done"} /\ JudgesRan /\ AllFallback(judgments)) =>
        /\ consensus.path = "all_fallback"
        /\ trace = << >>
        /\ consensus.model_used = ""
        /\ consensus.scores = det
        /\ consensus.confidence <= 30
        /\ pc = "done" => result.final_score = result.deterministic_score

C4_Witness ==
    /\ pc = "done" /\ JudgesRan /\ cfg.client
    /\ Len(judgments) = 3 /\ AllFallback(judgments)

\* ------------------------------------------------------------------------
\* C5: a run in which the parent obtains no well-formed sentinel-delimited
\* JSON block yields a TestSuiteResult with total = 1, passed = 0,
\* pass_rate = 0 and exactly one failing test record carrying a message.
\* ------------------------------------------------------------------------
AfterParse == pc \notin {"start", "sandboxed", "v1_parsed"}

WellFormedBlock(stdout) ==
    \E i \in 1..(Len(stdout) - 1) : stdout[i].k = "marker" /\ stdout[i + 1].k = "json"

NoBlockObtained ==
    raw.sandbox_violation \/ raw.timeout \/ ~WellFormedBlock(raw.stdout)

IsSyntheticFailure(r) ==
    /\ r.total = 1 /\ r.passed = 0 /\ r.pass_rate.n = 0
    /\ Len(r.results) = 1
    /\ ~r.results[1].passed
    /\ r.results[1].message # ""

C5_SyntheticFailure ==
    (AfterParse /\ NoBlockObtained) =>
        IsSyntheticFailure(tsr1) /\ IsSyntheticFailure(tsr)

\* ------------------------------------------------------------------------
\* C6: run_in_sandbox writes the temporary files and starts the worker if
\* and only if check_code_safety returned no violation; with a violation it
\* returns sandbox_violation = true, timeout = false and empty stdout, and
\* nothing of the submission is executed.
\* ------------------------------------------------------------------------
C6_WorkerIffSafe ==
    pc # "start" =>
        LET violations == check_code_safety(sub)
        IN  /\ worker.spawned <=> violations = << >>
            /\ worker.filesWritten <=> violations = << >>
            /\ violations # << >> =>
                 /\ raw.sandbox_violation /\ ~raw.timeout
                 /\ raw.stdout = << >>
                 /\ ~worker.executed

C6_Witness ==
    /\ pc = "sandboxed"
    /\ Len(check_code_safety(sub)) = 1
    /\ raw.sandbox_violation
\* ------------------------------------------------------------------------
\* C7: for a submission that passes the safety check the worker's stdout
\* holds exactly one marker line followed by the harness's JSON object, so
\* the counts the parent parses are the harness's own counts whatever the
\* submission printed; when the harness never reported, no passed test is
\* counted.
\* ------------------------------------------------------------------------
MarkerCount(stdout) ==
    Cardinality({ i \in 1..Len(stdout) : stdout[i].k = "marker" })

CountsAgree(r, h) ==
    /\ r.total = h.total /\ r.passed = h.passed
    /\ r.failed = h.failed /\ r.errors = h.errors

C7_HarnessCountsOnly ==
    (AfterParse /\ worker.executed /\ ~raw.timeout) =>
        IF worker.harness.ran
        THEN /\ MarkerCount(raw.stdout) = 1
             /\ CountsAgree(tsr, worker.harness)
             /\ CountsAgree(tsr1, worker.harness)
        ELSE /\ MarkerCount(raw.stdout) = 0
             /\ tsr.passed = 0 /\ tsr1.passed = 0

\* ------------------------------------------------------------------------
\* C8: every TestSuiteResult of run_tests (V1) or parse_sandbox_output (V2)
\* has 0 <= pass_rate <= 1, pass_rate = passed/total when total > 0 (up to
\* V1's rounding to 4 decimals) and pass_rate = 0 when total = 0.
\* ------------------------------------------------------------------------
PassRateOK(r) ==
    /\ r.pass_rate.n >= 0
    /\ r.pass_rate.n <= r.pass_rate.d
    /\ r.total > 0 =>
         2 * Abs(r.pass_rate.n * r.total - r.passed * r.pass_rate.d)
           * 10000 <= r.total * r.pass_rate.d
    /\ r.total = 0 => r.pass_rate.n = 0

C8_PassRateInUnit == AfterParse => PassRateOK(tsr1) /\ PassRateOK(tsr)

\* ------------------------------------------------------------------------
\* C9: the deterministic rubric, each judge's rubric and the consensus
\* rubric have all five dimensions in [0,10]; hence deterministic_score,
\* llm_adjusted_score and final_score are in [0,10].
\* ------------------------------------------------------------------------
InRange(scores) == \A d \in DimSet : scores[d] >= 0 /\ scores[d] <= TEN

C9_RubricInRange ==
    /\ pc \in {"scored", "judged", "consensus", "audited", "done"} =>
         /\ InRange(det)
         /\ \A i \in 1..Len(judgments) : InRange(judgments[i].scores)
    /\ pc \in {"consensus", "audited", "done"} => InRange(consensus.scores)
    /\ pc = "done" =>
         /\ result.deterministic_score >= 0 /\ result.deterministic_score <= TEN * 100
         /\ result.llm_adjusted_score >= 0 /\ result.llm_adjusted_score <= TEN * 100
         /\ result.final_score >= 0 /\ result.final_score <= TEN * 100

\* ------------------------------------------------------------------------
\* C10: a role's judgment has fallback = true iff no configured model gave
\* a response the router parsed as valid (no client included); a fallback
\* judgment carries the deterministic rubric, confidence 0.3 and an empty
\* model id; a non-fallback judgment names the configured model whose
\* response was the first valid one, and no later model was asked.
\* ------------------------------------------------------------------------
LastJudgment == judgments[Len(judgments)]

ValidResponses == { i \in 1..Len(trace) : trace[i].kind = "ok" }

FiveKeys(reply) ==
    /\ reply.kind = "ok"
    /\ \A d \in DimSet : reply.scores[d].t # "missing"

C11_FiveKeysRequired ==
    (pc \in {"scored", "judged"} /\ judgments # << >> /\ ~LastJudgment.fallback) =>
        FiveKeys(trace[Len(trace)].reply)
\* ------------------------------------------------------------------------
\* C12: every judge judgment and every ConsensusResult has confidence in
\* [0,1] whatever confidence the model response carried, and a judgment
\* with fallback = true has confidence <= 0.3.
\* ------------------------------------------------------------------------
ConfidenceInUnit(c) == c >= 0 /\ c <= 100

C12_ConfidenceInUnit ==
    /\ \A i \in 1..Len(judgments) :
         /\ ConfidenceInUnit(judgments[i].confidence)
         /\ judgments[i].fallback => judgments[i].confidence <= 30
    /\ pc \in {"consensus", "audited", "done"} => ConfidenceInUnit(consensus.confidence)
\* ------------------------------------------------------------------------
\* C13: query_models contacts the models strictly in configured order; the
\* next model is contacted only after the current one exhausted its
\* attempts without a response or returned text that does not parse; each
\* model gets at most `retries` attempts, with a wait of 2^i seconds after
\* failed attempt i and none after the last; the returned model is the
\* first whose response parsed, nothing is contacted after it, and
\* (None, "") is returned exactly when no model succeeded.
\* ------------------------------------------------------------------------
Events == router.events

IsAttempt(p) == Events[p].e = "attempt"

\* position of the delivery attempt before position p, 0 if none
PrevAttempt(p) ==
    LET before == { q \in 1..(p - 1) : IsAttempt(q) }
    IN  IF before = {} THEN 0 ELSE CHOOSE q \in before : \A x \in before : x <= q

OrderOK ==
    \A p \in 1..Len(Events) :
        IsAttempt(p) =>
            LET q == PrevAttempt(p)
            IN  IF q = 0 THEN Events[p].m = 1 /\ Events[p].a = 0
                ELSE \/ /\ Events[p].m = Events[q].m
                        /\ Events[p].a = Events[q].a + 1
                        /\ Events[q].out = "none"
                     \/ /\ Events[p].m = Events[q].m + 1
                        /\ Events[p].a = 0
                        /\ \/ Events[q].out \in {"garbage", "no_scores"}
                           \/ Events[q].out = "none" /\ Events[q].a = router.retries - 1

AttemptsBounded ==
    \A p \in 1..Len(Events) :
        IsAttempt(p) => Events[p].a < router.retries /\ Events[p].m <= Len(router.models)

WaitsOK ==
    /\ \A p \in 1..Len(Events) :
         Events[p].e = "sleep" =>
            /\ p > 1 /\ IsAttempt(p - 1)
            /\ Events[p - 1].out = "none"
            /\ Events[p - 1].m = Events[p].m /\ Events[p - 1].a = Events[p].a
            /\ Events[p].a < router.retries - 1
            /\ Events[p].secs = 2 ^ Events[p].a
    /\ \A p \in 1..Len(Events) :
         (IsAttempt(p) /\ Events[p].out = "none" /\ Events[p].a < router.retries - 1) =>
            IF p < Len(Events) THEN Events[p + 1].e = "sleep"
            ELSE router.k = "sleep"

ReturnOK ==
    LET parsedAt == { p \in 1..Len(Events) : IsAttempt(p) /\ Events[p].out = "ok" }
    IN  /\ parsedAt \subseteq {Len(Events)}
        /\ parsedAt # {} => router.k = "returned"
        /\ router.k = "returned" =>
             IF parsedAt = {}
             THEN router.parsed = "None" /\ router.model_used = ""
             ELSE /\ router.parsed = "scores"
                  /\ router.model_used = router.models[Events[Len(Events)].m]

FlagCount(flags, dimension, severity, rule) ==
    Cardinality({ i \in 1..Len(flags) :
                    /\ flags[i].dimension = dimension
                    /\ flags[i].severity = severity
                    /\ flags[i].rule = rule })

OneIff(cond, flags, dimension, severity, rule) ==
    FlagCount(flags, dimension, severity, rule) = IF cond THEN 1 ELSE 0

\* the rules fire in the order of the source, so the whole list is fixed
C14_AuditRules ==
    fn.k = "audit" =>
        LET cs == fn.in.consensus.scores
            ds == fn.in.det_scores
            n == fn.in.artifact.test_results.pass_rate.n
            d == fn.in.artifact.test_results.pass_rate.d
            w == fn.in.artifact.static_warnings
            fl == fn.out
        IN  /\ OneIff(cs.correctness > 70000 /\ 10 * n < 7 * d,
                      fl, "correctness", "high", "high_correctness")
            /\ OneIff(cs.correctness < 30000 /\ 10 * n > 9 * d,
                      fl, "correctness", "high", "low_correctness")
            /\ OneIff(cs.edge_cases > 80000 /\ 10 * n < 8 * d,
                      fl, "edge_cases", "medium", "high_edge_cases")
            /\ OneIff(cs.style > 80000 /\ w > 5, fl, "style", "medium", "style_warnings")
            /\ OneIff(fn.in.artifact.timeout /\ cs.correctness > 30000,
                      fl, "correctness", "high", "timeout")
            /\ OneIff(fn.in.artifact.sandbox_violation /\ cs.correctness > 0,
                      fl, "correctness", "high", "sandbox")
            /\ \A dim \in DimSet :
                 OneIff(ds[dim] - cs[dim] > 30000 \/ cs[dim] - ds[dim] > 30000,
                        fl, dim, "medium", "deviation")
            /\ Len(fl) <= 11
            /\ Len(fl) = Cardinality({ i \in 1..Len(fl) :
                             FlagCount(fl, fl[i].dimension, fl[i].severity, fl[i].rule) = 1 })

\* an input at the boundary of several rules: deviation of exactly 3.0,
\* exactly 5 warnings, style exactly 8
C14_Witness ==
    /\ fn.k = "audit"
    /\ fn.in.artifact.static_warnings = 5
    /\ fn.in.consensus.scores.style = 80000
    /\ fn.in.det_scores.style = 110000
    /\ fn.in.artifact.timeout
    /\ Len(fn.out) = 1

\* ------------------------------------------------------------------------
\* C15: for every audit input with consensus correctness = 9 and pass_rate
\* = 0.2 the result has exactly one flag with severity high and dimension
\* correctness; for every audit input with consensus correctness = 5 and
\* pass_rate = 0.5 the result is empty.
\* ------------------------------------------------------------------------
HighCorrectnessFlags(flags) ==
    { i \in 1..Len(flags) : flags[i].severity = "high" /\ flags[i].dimension = "correctness" }

AuditCase(correctness, n) ==
    /\ fn.k = "audit"
    /\ fn.in.consensus.scores.correctness = correctness
    /\ fn.in.artifact.test_results.pass_rate = [n |-> n, d |-> 10]

\* the claim as stated
C15_AuditExamplesAlways ==
    /\ AuditCase(90000, 2) => Cardinality(HighCorrectnessFlags(fn.out)) = 1
    /\ AuditCase(50000, 5) => fn.out = << >>

\* no other rule applies to the input
AuditOtherwiseQuiet ==
    /\ ~fn.in.artifact.timeout /\ ~fn.in.artifact.sandbox_violation
    /\ fn.in.consensus.scores.edge_cases <= 80000
    /\ fn.in.consensus.scores.style <= 80000 \/ fn.in.artifact.static_warnings <= 5
    /\ \A dim \in DimSet \ {"correctness"} :
         Abs(fn.in.det_scores[dim] - fn.in.consensus.scores[dim]) <= 30000

\* C15 as amended: with correctness 9 and pass_rate 0.2, not timed out and
\* no sandbox violation, exactly one high correctness flag; with
\* correctness 5 and pass_rate 0.5 no flag of rule 1 or 2, and the list is
\* empty when no other rule applies and |det - consensus| <= 3 on
\* correctness
C15_AuditExamples ==
    /\ (AuditCase(90000, 2) /\ ~fn.in.artifact.timeout
                            /\ ~fn.in.artifact.sandbox_violation) =>
          /\ Cardinality(HighCorrectnessFlags(fn.out)) = 1
          /\ \E i \in 1..Len(fn.out) : fn.out[i].rule = "high_correctness"
    /\ AuditCase(50000, 5) =>
          /\ \A i \in 1..Len(fn.out) :
                fn.out[i].rule \notin {"high_correctness", "low_correctness"}
          /\ (AuditOtherwiseQuiet
              /\ Abs(fn.in.det_scores.correctness - 50000) <= 30000) => fn.out = << >>

C15_Witness ==
    /\ AuditCase(90000, 2)
    /\ ~fn.in.artifact.timeout /\ ~fn.in.artifact.sandbox_violation
    /\ fn.in.det_scores.correctness = 90000
    /\ Len(fn.out) > 1
\* ------------------------------------------------------------------------
\* C16: on the confidence-weighted path each consensus dimension equals
\* sum(w_j * score_j) / sum(w_j), w_j being the confidence of a real judge
\* and 0.1 for a fallback judge; the combined weight of the fallback judges
\* does not exceed that of the real judges; a judge of weight 0 contributes
\* nothing; a total weight of 0 yields the deterministic value.
\* ------------------------------------------------------------------------
WeightOf(js, which) ==
    SeqSum([i \in 1..Len(js) |-> IF js[i].fallback = which
                                 THEN (IF which THEN 10 ELSE js[i].confidence)
                                 ELSE 0], Len(js))

\* the average, up to the rounding to 2 decimals
WeightedAverageOK ==
    LET js == fn.in.judgments
        W == WeightOf(js, TRUE) + WeightOf(js, FALSE)
    IN  \A d \in DimSet :
            LET S == SeqSum([i \in 1..Len(js) |->
                               js[i].scores[d] * (IF js[i].fallback THEN 10
                                                  ELSE js[i].confidence)], Len(js))
            IN  IF W > 0 THEN 2 * Abs(fn.out.scores[d] * W - S) <= 100 * W
                ELSE fn.out.scores[d] = fn.in.det_scores[d]

FallbackNotDominant ==
    WeightOf(fn.in.judgments, TRUE) <= WeightOf(fn.in.judgments, FALSE)

C16_WeightedConsensus ==
    (fn.k = "consensus" /\ fn.out.path = "weighted") =>
        WeightedAverageOK /\ FallbackNotDominant

\* the average itself is computed as stated
C16_AverageOnly ==
    (fn.k = "consensus" /\ fn.out.path = "weighted") => WeightedAverageOK
\* ------------------------------------------------------------------------
\* C17: no component of the per-submission pipeline raises into the
\* orchestration layer: worker output whose sentinel is followed by JSON
\* that is not an object or has non-numeric counts, a model response that
\* is not an object or whose scores member is not an object, and a
\* non-numeric confidence are all turned into data.
\* ------------------------------------------------------------------------
C17_NoExceptionEscapes ==
    fn.k \in {"parse", "judge"} => fn.out = ""

\* ------------------------------------------------------------------------
\* C18: when evaluate_all has ended, every submission whose own evaluation
\* succeeds has its result in what the caller receives, whatever happened
\* to the other submissions of the batch.
\* ------------------------------------------------------------------------
HasResult(j) ==
    \E r \in 1..Len(batch.results) :
        batch.results[r].sub = j /\ ~batch.results[r].error

C18_FailureIsolated ==
    batch.k \in {"returned", "raised"} =>
        \A j \in 1..Len(batch.subs) : batch.subs[j] = "returns" => HasResult(j)

\* the same for the V1 loop alone
C18_FailureIsolatedV1 ==
    (batch.k \in {"returned", "raised"} /\ batch.impl = "V1") =>
        \A j \in 1..Len(batch.subs) : batch.subs[j] = "returns" => HasResult(j)

\* ------------------------------------------------------------------------
\* C19: under every interleaving of concurrent _query_model_tasks calls the
\* metadata endpoint is asked at most once per model identifier, a written
\* cache entry never changes, and all callers are handed the same
\* capability set for a model.
\* ------------------------------------------------------------------------
C19_QueriedOnceAndStable ==
    cache.k = "run" =>
        \A m \in ModelIds :
            /\ cache.queries[m] <= 1
            /\ ~cache.changed[m]
            /\ Cardinality(cache.seen[m]) <= 1

\* a caller that finds the entry present never asks the endpoint
C19_HitNeverQueries ==
    [][\A t \in Callers, m \in ModelIds :
          (cache.k = "run" /\ m \in cache.keys /\ cache.thr[t].pc = "idle")
              => (cache'.thr[t].pc # "missed" \/ cache'.thr[t].model # m)]_vars

\* ------------------------------------------------------------------------
\* C20: for every text whose string literals are all closed, strip_comments
\* removes no character of a string literal that is not a documentation
\* block; in particular a "#" inside a quoted string is kept, also when
\* the string holds an escaped quote or the other quote character or runs
\* over several lines between triple quotes.
\* ------------------------------------------------------------------------
C20_StringLiteralsKept ==
    (fn.k \in {"strip1", "strip"} /\ fn.lst.m = "out") => ~fn.damaged

\* the part about the other quote character: one line, no backslash, no
\* two quotes in a row
PlainQuotes(line) ==
    /\ \A i \in 1..Len(line) : line[i] # "B"
    /\ \A i \in 1..(Len(line) - 1) :
          ~(line[i] \in {"Q", "A"} /\ line[i + 1] = line[i])

C20_OtherQuoteKept ==
    (fn.k = "strip1" /\ fn.lst.m = "out" /\ PlainQuotes(fn.line)) => ~fn.damaged

\* ------------------------------------------------------------------------
\* C21: every ConsensusResult, from the confidence-weighted path and from
\* the meta-judge path alike, lists as disagreements exactly the rubric
\* dimensions on which the highest and the lowest judge opinion are more
\* than 2.0 apart.
\* ------------------------------------------------------------------------
Spread(js, d) ==
    LET vals == { js[i].scores[d] : i \in 1..Len(js) }
    IN  IF vals = {} THEN 0
        ELSE (CHOOSE x \in vals : \A y \in vals : y <= x)
             - (CHOOSE x \in vals : \A y \in vals : x <= y)

WideSpread(js) == { d \in DimSet : Spread(js, d) > 20000 }

C21_DisagreementsExact ==
    (pc \in {"consensus", "audited", "done"} /\ consensus.path # "none")
        => consensus.disagreements = WideSpread(judgments)

\* the same for the results that do not come from the meta-judge
C21_DisagreementsExactWeighted ==
    (pc \in {"consensus", "audited", "done"}
       /\ consensus.path \in {"weighted", "all_fallback"})
        => consensus.disagreements = WideSpread(judgments)

\* ------------------------------------------------------------------------
\* C22: the confidence of a result of run_deterministic_consensus.  As
\* stated: the arithmetic mean of the confidences of exactly the
\* non-fallback judges, and one fixed low value whenever no judge is
\* non-fallback, the empty judge list included.
\* ------------------------------------------------------------------------
RealJudges(js) == { i \in 1..Len(js) : ~js[i].fallback }

RealConfidenceSum(js) ==
    LET RECURSIVE Sum(_)
        Sum(S) == IF S = {} THEN 0
                  ELSE LET i == CHOOSE i \in S : TRUE
                       IN  js[i].confidence + Sum(S \ {i})
    IN  Sum(RealJudges(js))

C22_MeanOrLow ==
    fn.k = "consensus" =>
        LET js == fn.in.judgments
            n == Cardinality(RealJudges(js))
        IN  IF n > 0
            THEN fn.out.confidence * n = RealConfidenceSum(js)
            ELSE fn.out.confidence = 30

\* C22 as the code has it: the mean is rounded to two decimals (here: to
\* the nearest percent), the value without non-fallback judges is 0.3 for
\* a non-empty list and 1.0 for the empty list.
C22_RoundedMeanOrFixed ==
    fn.k = "consensus" =>
        LET js == fn.in.judgments
            n == Cardinality(RealJudges(js))
        IN  IF n > 0
            THEN 2 * Abs(fn.out.confidence * n - RealConfidenceSum(js)) <= n
            ELSE fn.out.confidence = IF js = << >> THEN 100 ELSE 30

C22_Witness ==
    /\ fn.k = "consensus"
    /\ fn.out.path = "weighted"
    /\ Len(fn.in.judgments) = 3
    /\ Cardinality(RealJudges(fn.in.judgments)) = 2
    /\ fn.out.confidence = 55

\* ------------------------------------------------------------------------
\* C23: for every outcome (passed, total) with total > 0 the deterministic
\* edge_cases score is the piecewise value of the pass rate rounded to two
\* decimals, hence a multiple of 0.01.
\* ------------------------------------------------------------------------
\* the curve in 1/100 point, as a fraction over total
CurveNumerator(passed, total) ==
    IF passed >= total THEN 1000 * total
    ELSE IF 10 * passed >= 8 * total THEN 1500 * passed - 500 * total
    ELSE IF 10 * passed >= 5 * total THEN 1000 * passed - 100 * total
    ELSE 800 * passed

C23_EdgeCasesRounded ==
    fn.k = "edge_cases" =>
        /\ fn.out % 100 = 0
        /\ 2 * Abs((fn.out \div 100) * fn.in.total
                   - CurveNumerator(fn.in.passed, fn.in.total)) <= fn.in.total

\* the curve itself is what the code computes: the value is within half
\* of 1/10000 point of it
C23_EdgeCasesCurve ==
    fn.k = "edge_cases" =>
        2 * Abs(fn.out * fn.in.total
                - 100 * CurveNumerator(fn.in.passed, fn.in.total)) <= fn.in.total

\* ------------------------------------------------------------------------
\* C24: compute_complexity caps the loop-nesting score at 6 if and only if
\* some function of the source calls itself, no memoization indicator
\* occurs and the expected complexity is linear (O(n) or O(V+E)); a source
\* whose functions only call other functions is never capped.
\* ------------------------------------------------------------------------
NestingScore(depth, expected) ==
    IF expected \in {"O(n)", "O(V+E)"}
    THEN (IF depth >= 3 THEN 20000 ELSE IF depth = 2 THEN 50000
          ELSE IF depth = 1 THEN 90000 ELSE TEN)
    ELSE IF expected = "O(n^2)"
    THEN (IF depth >= 3 THEN 40000 ELSE IF depth = 2 THEN 80000 ELSE TEN)
    ELSE TEN

SelfCall(calls) == \E c \in calls : c[1] = c[2]

C24_CapIffSelfRecursion ==
    fn.k = "complexity" =>
        LET capped == /\ SelfCall(fn.in.calls)
                      /\ ~fn.in.has_memo
                      /\ fn.in.expected \in {"O(n)", "O(V+E)"}
            score == NestingScore(fn.in.depth, fn.in.expected)
        IN  fn.out = IF capped THEN Min2(score, 60000) ELSE score

\* as the code has it: any call of a defined function by its name, and
\* O(n) alone
C24_CapAsCoded ==
    fn.k = "complexity" =>
        LET capped == /\ \E c \in fn.in.calls : c[2] \in FuncDefs
                      /\ ~fn.in.has_memo
                      /\ fn.in.expected = "O(n)"
            score == NestingScore(fn.in.depth, fn.in.expected)
        IN  fn.out = IF capped THEN Min2(score, 60000) ELSE score

\* ------------------------------------------------------------------------
\* C25: check_code_safety returns the empty list if and only if the source
\* parses and holds no import statement of any form (import x, import x.y,
\* from x import y, relative from-import) that brings in a module whose
\* top-level name is outside the allow-list, no call of a blocked built-in
\* by name and no attribute call named system, popen, exec or spawn; a
\* source that does not parse yields exactly one violation, the syntax
\* error.
\* ------------------------------------------------------------------------
\* the top-level name of the module the statement brings in
BroughtIn(st) ==
    IF st.module # "" THEN TopLevel(st.module) ELSE st.name

OutsideAllowList(imports) ==
    \E st \in imports : BroughtIn(st) \notin SAFE_IMPORTS

C25_SafeIffClean ==
    fn.k = "safety" =>
        /\ fn.out = << >> <=>
              /\ fn.in.syntaxOK
              /\ ~OutsideAllowList(fn.in.imports)
              /\ fn.in.calls \cap BLOCKED_BUILTINS = {}
              /\ fn.in.attrs \cap BLOCKED_ATTRS = {}
        /\ ~fn.in.syntaxOK =>
              (Len(fn.out) = 1 /\ fn.out[1][1] = "SyntaxError")

\* the same without the from-imports that have no module part
C25_SafeIffCleanNamedModules ==
    (fn.k = "safety" /\ \A st \in fn.in.imports : st.module # "") =>
        /\ fn.out = << >> <=>
              /\ fn.in.syntaxOK
              /\ ~OutsideAllowList(fn.in.imports)
              /\ fn.in.calls \cap BLOCKED_BUILTINS = {}
              /\ fn.in.attrs \cap BLOCKED_ATTRS = {}
        /\ ~fn.in.syntaxOK =>
              (Len(fn.out) = 1 /\ fn.out[1][1] = "SyntaxError")

\* ------------------------------------------------------------------------
\* C26: V1 judge_submission terminates and returns a judgment; it invokes
\* the primary model at most twice, a "loading" error using up one of the
\* two attempts after its wait, then each fallback model at most once in
\* list order; it returns the judgment of the first response that parses
\* validly and invokes nothing after it, and it returns the fallback
\* judgment exactly when no response parsed validly or no token is set.
\* ------------------------------------------------------------------------
CallsOf(model) ==
    Cardinality({ i \in 1..Len(judge1.calls) : judge1.calls[i].model = model })

ModelRank(model) ==
    IF model = "primary" THEN 0
    ELSE CHOOSE r \in 1..Len(FALLBACK_MODELS) : FALLBACK_MODELS[r] = model

InvocationOrder ==
    /\ CallsOf("primary") <= 2
    /\ \A r \in 1..Len(FALLBACK_MODELS) : CallsOf(FALLBACK_MODELS[r]) <= 1
    /\ \A i, j \in 1..Len(judge1.calls) :
          i < j => ModelRank(judge1.calls[i].model) <= ModelRank(judge1.calls[j].model)
    /\ (\E i \in 1..Len(judge1.calls) : judge1.calls[i].model # "primary")
          => CallsOf("primary") = 2
    /\ ~judge1.token => judge1.calls = << >>

LoadingWaits ==
    judge1.sleeps =
        Cardinality({ i \in 1..Len(judge1.calls) :
                        /\ judge1.calls[i].model = "primary"
                        /\ judge1.calls[i].outcome = "loading" })

\* the response parses validly: _parse_llm_response returns the data
ParsesValidly(outcome) == outcome \in {"valid", "unbuildable"}

JudgeSafe ==
    judge1.k # "idle" =>
        /\ InvocationOrder
        /\ LoadingWaits
        /\ \A i \in 1..(Len(judge1.calls) - 1) :
              judge1.calls[i].outcome # "valid"
        /\ judge1.k # "returned" =>
              \A i \in 1..Len(judge1.calls) : judge1.calls[i].outcome # "valid"
        /\ judge1.k = "returned" =>
              /\ judge1.ret \in {"judgment", "fallback"}
              /\ judge1.ret = "fallback" <=>
                    \/ ~judge1.token
                    \/ \A i \in 1..Len(judge1.calls) :
                          judge1.calls[i].outcome # "valid"

C27_QuietWhenAllFallback ==
    (pc \in {"audited", "done"} /\ JudgesRan /\ AllFallback(judgments)
       /\ consensus.scores = det) =>
        /\ h_flags = << >>
        /\ pc = "done" => result.fallback_info = "Low consensus confidence"

\* ------------------------------------------------------------------------
\* C28: a submission whose source does not parse is never executed and is
\* reported as a sandbox violation: run_in_sandbox returns
\* sandbox_violation = true with the syntax error as its only violation,
\* the ExecutionArtifact carries sandbox_violation = true and timeout =
\* false, and the auditor's sandbox rule applies to it as to any other
\* violation: one high correctness flag exactly when the consensus
\* correctness is above 0.
\* ------------------------------------------------------------------------
AfterEvidence == pc \in {"scored", "judged", "consensus", "audited", "done"}

AuditRan == pc \in {"audited", "done"} /\ consensus.path # "none"

SandboxRuleApplied ==
    FlagCount(h_flags, "correctness", "high", "sandbox")
        = IF consensus.scores.correctness > 0 THEN 1 ELSE 0

C28_SyntaxErrorIsViolation ==
    /\ (pc # "start" /\ ~sub.syntaxOK) =>
          /\ ~worker.filesWritten /\ ~worker.spawned /\ ~worker.executed
          /\ raw.sandbox_violation /\ ~raw.timeout
          /\ Len(raw.violations) = 1
          /\ raw.violations[1][1] = "SyntaxError"
          /\ AfterEvidence => (artifact.sandbox_violation /\ ~artifact.timeout)
    /\ (AuditRan /\ (~sub.syntaxOK \/ sub.name = "bad_import"))
          => SandboxRuleApplied

C28_Witness ==
    /\ pc = "audited"
    /\ ~sub.syntaxOK
    /\ artifact.sandbox_violation
    /\ consensus.scores.correctness > 0
    /\ FlagCount(h_flags, "correctness", "high", "sandbox") = 1

\* ------------------------------------------------------------------------
\* C29: once a task set is stored for a model identifier, the empty set of
\* a failed lookup included, no later invoke_model call for it sends a
\* metadata request; if the stored set holds neither conversational nor
\* text-generation the call returns None without contacting the inference
\* client, so every attempt of invoke_with_retry for that model, now and
\* later, ends as the first did.
\* ------------------------------------------------------------------------
Unroutable(tasks) == tasks \cap {"conversational", "text-generation"} = {}

C29_StoredSetDecides ==
    cache.k = "seq" =>
        \A j \in 1..Len(cache.log) :
            LET c == cache.log[j]
            IN  /\ c.cached => ~c.requested
                /\ \A i \in 1..(j - 1) :
                      cache.log[i].model = c.model =>
                          /\ c.cached /\ ~c.requested
                          /\ c.tasks = cache.log[i].tasks
                          /\ Unroutable(c.tasks) =>
                                /\ c.result = cache.log[i].result
                                /\ c.contacts = cache.log[i].contacts
                /\ Unroutable(c.tasks) => (c.contacts = 0 /\ c.result = "None")

\* a failed lookup stored the empty set for m1; two invoke_with_retry
\* calls of two attempts each all returned None without a request
C29_Witness ==
    /\ cache.k = "seq"
    /\ Len(cache.log) = 4
    /\ \A i \in 1..4 : /\ cache.log[i].model = "m1"
                       /\ cache.log[i].tasks = {}
                       /\ cache.log[i].result = "None"
                       /\ cache.log[i].contacts = 0
    /\ cache.log[1].requested
    /\ \A i \in 2..4 : cache.log[i].cached /\ ~cache.log[i].requested
    /\ cache.invokes = 2

\* ------------------------------------------------------------------------
\* C30: the details list of the harness's block has one record per executed
\* test: as many records as total, as many PASS, FAIL and ERROR records as
\* passed, failed and errors; every PASS record carries the name of a test
\* of the suite, and no name has a PASS record and a FAIL or ERROR record;
\* the list of TestResult the parent builds from the block has one entry
\* per record, with as many passed entries as the passed count.
\* ------------------------------------------------------------------------
HarnessBlock == raw.stdout[Len(raw.stdout)]

WithStatus(details, s) == { i \in 1..Len(details) : details[i].status = s }

RecordsMatchCounts(out) ==
    /\ Len(out.details) = out.total
    /\ Cardinality(WithStatus(out.details, "PASS")) = out.passed
    /\ Cardinality(WithStatus(out.details, "FAIL")) = out.failed
    /\ Cardinality(WithStatus(out.details, "ERROR")) = out.errors

PassNamesAreTests(out) ==
    \A i \in WithStatus(out.details, "PASS") :
        /\ out.details[i].name \in Range(TestNames)
        /\ \A j \in 1..Len(out.details) :
              out.details[j].name = out.details[i].name => j \in WithStatus(out.details, "PASS")

ParentListMatches(r, out) ==
    /\ Len(r.results) = out.total
    /\ Cardinality({ i \in 1..Len(r.results) : r.results[i].passed }) = out.passed
    /\ Cardinality({ i \in 1..Len(r.results) : ~r.results[i].passed })
          = out.failed + out.errors

\* the parent's list follows the block record by record
ParentListFollowsDetails(r, out) ==
    /\ Len(r.results) = Len(out.details)
    /\ \A i \in 1..Len(out.details) :
          /\ r.results[i].test_name = out.details[i].name
          /\ r.results[i].passed = (out.details[i].status = "PASS")

C30_OneRecordPerTest ==
    (pc # "start" /\ worker.harness.ran) =>
        /\ RecordsMatchCounts(HarnessBlock)
        /\ PassNamesAreTests(HarnessBlock)
        /\ (AfterParse /\ MarkerCount(raw.stdout) = 1) =>
              ParentListMatches(tsr, HarnessBlock)

\* what the harness and the parent do: one FAIL record per failure, one
\* ERROR record per error, then one PASS record named "None" for every test
\* of the suite whatever its outcome; the parent copies the list
C30_DetailsAsCoded ==
    (pc # "start" /\ worker.harness.ran) =>
        LET out == HarnessBlock
        IN  /\ Cardinality(WithStatus(out.details, "FAIL")) = out.failed
            /\ Cardinality(WithStatus(out.details, "ERROR")) = out.errors
            /\ Cardinality(WithStatus(out.details, "PASS")) = out.total
            /\ \A i \in WithStatus(out.details, "PASS") : out.details[i].name = "None"
            /\ (AfterParse /\ MarkerCount(raw.stdout) = 1) =>
                  ParentListFollowsDetails(tsr, out)

=============================================================================
